---- MODULE Spec2Model ----
(***************************************************************************)
(* Model of the match engine of the Valorant e-sport simulator            *)
(* (app/simulation/match_engine.py, app/simulation/weapons.py).           *)
(*                                                                         *)
(* Scaling of the floating point quantities of the source:                 *)
(*   accuracy, movement_accuracy   in hundredths                           *)
(*   range multipliers, armor_penetration in twentieths                    *)
(*   jitter factors (uniform in [0.8, 1.2]) in units of 0.4                *)
(***************************************************************************)
EXTENDS Integers, Sequences, FiniteSets, TLC

\* ------------------------------------------------------------------------
\* Bounds of the model
\* ------------------------------------------------------------------------
TeamSize == 2

\* Rounds of a match whose random draws are all explored; in the later rounds
\* the model follows the single draw sequence "no engagement, plant".
ContestedRounds == 4

\* Rounds in which the time steps of the engagement loop and its iterations
\* without engagement or plant are explored by the timed specification, and
\* the simulated time up to which such iterations are
TimedRounds == 1
MaxEventTime == 30

\* ------------------------------------------------------------------------
\* Program constants
\* ------------------------------------------------------------------------
MAX_MONEY == 9000
MIN_MONEY == 2000
WIN_REWARD == 3000
PLANT_BONUS == 300
LOSS_STREAK_BONUS == <<1900, 2400, 2900, 3400, 3900>>
START_ECONOMY == 4000
PISTOL_CREDITS == 800
DEFAULT_CREDITS == 4000
PISTOL_ARMOR_COST == 400
ARMOR_COST == 1000
SECOND_HALF_ROUND == 12
WIN_SCORE == 13
TEST_TEAM_SIZE == 5
TEST_TEAM_ECONOMY == 5000

Teams == {"team_a", "team_b"}
Distances == {"close", "medium", "long"}

\* random.uniform(0.8, 1.2): the two end points, in units of 0.4
JitterSet == {2, 3}

Min(a, b) == IF a < b THEN a ELSE b
Max(a, b) == IF a > b THEN a ELSE b

OtherTeam(t) == IF t = "team_a" THEN "team_b" ELSE "team_a"

\* ------------------------------------------------------------------------
\* Weapon catalog (WeaponFactory.create_weapon_catalog)
\* ------------------------------------------------------------------------
Weapon(type, cost, acc, macc, close, medium, long, pen) ==
    [type |-> type, cost |-> cost, accuracy |-> acc, movement_accuracy |-> macc,
     range_multipliers |-> [close |-> close, medium |-> medium, long |-> long],
     armor_penetration |-> pen]

WeaponCatalog ==
    [Classic  |-> Weapon("sidearm",    0,  80, 60, 20, 16, 12, 10),
     Shorty   |-> Weapon("sidearm",  150,  70, 55, 30, 10,  2,  6),
     Frenzy   |-> Weapon("sidearm",  450,  70, 50, 20, 14, 10, 10),
     Ghost    |-> Weapon("sidearm",  500,  85, 65, 20, 18, 15, 14),
     Sheriff  |-> Weapon("sidearm",  800,  85, 50, 20, 18, 16, 15),
     Stinger  |-> Weapon("smg",      950,  65, 70, 20, 14, 10, 10),
     Spectre  |-> Weapon("smg",     1600,  75, 75, 24, 16, 12, 12),
     Bucky    |-> Weapon("shotgun",  850,  60, 40, 24, 16,  8,  8),
     Judge    |-> Weapon("shotgun", 1850,  55, 45, 26, 14,  6, 10),
     Bulldog  |-> Weapon("rifle",   2050,  85, 40, 20, 19, 17, 15),
     Guardian |-> Weapon("rifle",   2250,  95, 35, 20, 20, 19, 17),
     Phantom  |-> Weapon("rifle",   2900,  90, 40, 20, 20, 20, 16),
     Vandal   |-> Weapon("rifle",   2900,  85, 35, 20, 20, 20, 16),
     Marshal  |-> Weapon("sniper",   950,  95, 15, 20, 20, 20, 18),
     Operator |-> Weapon("sniper",  4700, 100, 10, 20, 20, 20, 20),
     Outlaw   |-> Weapon("sniper",  2400,  98, 12, 20, 20, 20, 19),
     Ares     |-> Weapon("heavy",   1600,  75, 30, 20, 18, 15, 14),
     Odin     |-> Weapon("heavy",   3200,  70, 25, 20, 18, 16, 16)]

WeaponNames == DOMAIN WeaponCatalog

\* ------------------------------------------------------------------------
\* Buy advisor (BuyPreferences)
\* ------------------------------------------------------------------------

\* max(agent_profs.items(), key=lambda x: x[1])[0]: the first agent, in the
\* order of the mapping, with the highest proficiency; None without entries.
RECURSIVE BestAgentFrom(_, _, _)
BestAgentFrom(profs, i, best) ==
    IF i > Len(profs) THEN profs[best][1]
    ELSE BestAgentFrom(profs, i + 1, IF profs[i][2] > profs[best][2] THEN i ELSE best)

PrimaryAgent(player) ==
    IF Len(player.agentProficiencies) = 0 THEN "None"
    ELSE BestAgentFrom(player.agentProficiencies, 1, 1)

_pistol_round_buy(credits, aim, movement, role, agent) ==
    IF credits >= 500 /\ aim > 75 THEN "Ghost"
    ELSE IF credits >= 800 /\ aim > 90 THEN "Sheriff"
    ELSE IF credits >= 450 /\ (role = "duelist" \/ movement > 70) THEN "Frenzy"
    ELSE IF credits >= 200 /\ role \in {"sentinel", "controller"} THEN "Shorty"
    ELSE "Classic"

_eco_buy(credits, aim, movement, role, agent) ==
    IF credits < 400 THEN "Classic"
    ELSE IF credits >= 800 /\ aim > 80 THEN "Sheriff"
    ELSE IF credits >= 700 /\ aim > 60 THEN "Ghost"
    ELSE IF credits >= 150 /\ (agent \in {"Reyna", "Raze", "Jett"} \/ role = "Entry") THEN "Shorty"
    ELSE IF credits >= 600 /\ (role = "Entry" \/ movement > 70) THEN "Frenzy"
    ELSE "Classic"

_force_buy(credits, aim, movement, role, agent) ==
    IF credits >= 1600 THEN "Spectre"
    ELSE IF credits >= 2050 THEN (IF aim > 80 THEN "Guardian" ELSE "Bulldog")
    ELSE IF credits >= 950 /\ (aim > 85 \/ agent = "Chamber") THEN "Marshal"
    ELSE IF credits >= 950 THEN "Stinger"
    ELSE IF credits >= 850 /\ (role = "Entry" \/ movement > 80) THEN "Bucky"
    ELSE _eco_buy(credits, aim, movement, role, agent)

_half_buy(credits, aim, movement, role, agent) ==
    IF credits >= 1600 THEN "Spectre"
    ELSE IF credits >= 1600 /\ role \in {"Sentinel", "Controller"} THEN "Ares"
    ELSE IF credits >= 1850 /\ (agent \in {"Raze", "Jett", "Reyna"} \/ movement > 85) THEN "Judge"
    ELSE _force_buy(credits, aim, movement, role, agent)

_full_buy(credits, aim, movement, utility, role, agent) ==
    IF credits >= 4700 /\ (agent = "Chamber" \/ aim > 85) THEN "Operator"
    ELSE IF credits >= 3200 /\ role \in {"Controller", "Sentinel"} THEN "Odin"
    ELSE IF credits >= 2900 THEN
        (IF aim > movement /\ aim > utility THEN "Vandal"
         ELSE IF movement > aim \/ utility > aim THEN "Phantom"
         ELSE IF role \in {"Duelist", "Initiator"} THEN "Vandal"
         ELSE "Phantom")
    ELSE IF credits >= 2250 THEN (IF aim > 80 THEN "Guardian" ELSE "Bulldog")
    ELSE IF credits >= 1600 THEN "Spectre"
    ELSE _force_buy(credits, aim, movement, role, agent)

decide_buy(player, available_credits, round_type) ==
    LET aim == player.coreStats.aim
        movement == player.coreStats.movement
        utility == player.coreStats.utilityUsage
        role == player.primaryRole
        agent == PrimaryAgent(player)
    IN  IF round_type = "pistol" THEN _pistol_round_buy(available_credits, aim, movement, role, agent)
        ELSE IF round_type = "eco" THEN _eco_buy(available_credits, aim, movement, role, agent)
        ELSE IF round_type = "force_buy" THEN _force_buy(available_credits, aim, movement, role, agent)
        ELSE IF round_type = "half_buy" THEN _half_buy(available_credits, aim, movement, role, agent)
        ELSE _full_buy(available_credits, aim, movement, utility, role, agent)

\* ------------------------------------------------------------------------
\* Players and rosters (inputs of simulate_match)
\* ------------------------------------------------------------------------
Player(id, role, aim, movement, utility, gameSense, profs) ==
    [id |-> id, primaryRole |-> role,
     coreStats |-> [aim |-> aim, movement |-> movement,
                    utilityUsage |-> utility, gameSense |-> gameSense],
     agentProficiencies |-> profs]

\* Three player profiles; a roster cycles through them from an offset.
\* The player with careerStats, in units of 0.1
WithCareerStats(player, kdRatio, clutchRate, firstBloodRate) ==
    [f \in DOMAIN player \cup {"careerStats"} |->
        IF f = "careerStats"
        THEN [kdRatio |-> kdRatio, clutchRate |-> clutchRate,
              firstBloodRate |-> firstBloodRate]
        ELSE player[f]]

Profile(k, id) ==
    CASE k = 0 -> WithCareerStats(
                    Player(id, "Duelist", 90, 80, 50, 70,
                           <<<<"Jett", 90>>, <<"Chamber", 60>>, <<"Omen", 55>>>>),
                    12, 2, 3)
      [] k = 1 -> WithCareerStats(
                    Player(id, "Sentinel", 70, 60, 70, 80,
                           <<<<"Jett", 55>>, <<"Chamber", 95>>, <<"Omen", 60>>>>),
                    10, 4, 1)
      [] OTHER -> WithCareerStats(
                    Player(id, "Controller", 50, 60, 80, 60,
                           <<<<"Jett", 50>>, <<"Chamber", 60>>, <<"Omen", 85>>>>),
                    9, 3, 2)

RosterOffsets == {0, 1}

IdsA == <<"a1", "a2", "a3", "a4", "a5", "a6">>
IdsB == <<"b1", "b2", "b3", "b4", "b5", "b6">>
DigitIds == {"0", "1", "2", "3", "4"}

Roster(ids, offset) ==
    [i \in 1..TeamSize |-> Profile((i - 1 + offset) % 3, ids[i])]

TeamIds(team) == {team[i].id : i \in 1..Len(team)}

\* ------------------------------------------------------------------------
\* Buy phase (MatchEngine._buy_phase)
\* ------------------------------------------------------------------------
_determine_round_type(team_economy, team_loss_streak) ==
    IF team_economy >= 4000 THEN "full_buy"
    ELSE IF team_loss_streak >= 2 \/ team_economy >= 2000 THEN "force_buy"
    ELSE "eco"

IsPistolRound(rn) == rn = 0 \/ rn = SECOND_HALF_ROUND

IsTestTeam(team) ==
    (\A i \in 1..Len(team) : team[i].id \in DigitIds) /\ Len(team) = TEST_TEAM_SIZE

PlayerRoundType(round_type, player_credits) ==
    IF player_credits < 2000 THEN "eco"
    ELSE IF player_credits < 3900 THEN "force_buy"
    ELSE round_type

WeaponChoice(idx, player, player_credits, round_type, is_test_team) ==
    LET prt == PlayerRoundType(round_type, player_credits)
    IN  IF is_test_team /\ round_type = "full_buy"
        THEN (IF idx = 0 THEN "Vandal" ELSE decide_buy(player, player_credits, prt))
        ELSE IF prt = "full_buy" /\ player_credits >= 2900
        THEN (IF idx % 2 = 0 THEN "Phantom" ELSE "Vandal")
        ELSE decide_buy(player, player_credits, prt)

CanBuyArmor_always(player_credits, armor_cost) == TRUE

CanBuyArmor(player_credits, armor_cost) == player_credits >= armor_cost

ShouldBuyArmor(prt, weapon, player_credits, armor_cost) ==
    prt # "eco" \/ (prt = "eco" /\ weapon = "Classic" /\ player_credits > armor_cost)

\* The purchase that keeps a weapon the player cannot pay
Purchase_unpaid(choice, prt, entry, armor_cost) ==
    LET cost == WeaponCatalog[choice].cost
        afford == entry >= cost
        weapon == choice
        after_weapon == IF afford THEN entry - cost ELSE entry
        buys_armor == CanBuyArmor(after_weapon, armor_cost)
                      /\ ShouldBuyArmor(prt, weapon, after_weapon, armor_cost)
    IN  [weapon |-> weapon, armor |-> buys_armor, entry |-> entry,
         credits |-> IF buys_armor THEN after_weapon - armor_cost ELSE after_weapon,
         spent |-> (IF afford THEN cost ELSE 0) + (IF buys_armor THEN armor_cost ELSE 0)]

\* The purchase of one player once the weapon choice is known: the weapon
\* falls back to the Classic when it cannot be paid, then armor is bought.
Purchase(choice, prt, entry, armor_cost) ==
    LET cost == WeaponCatalog[choice].cost
        afford == entry >= cost
        weapon == IF afford THEN choice ELSE "Classic"
        after_weapon == IF afford THEN entry - cost ELSE entry
        buys_armor == CanBuyArmor(after_weapon, armor_cost)
                      /\ ShouldBuyArmor(prt, weapon, after_weapon, armor_cost)
    IN  [weapon |-> weapon, armor |-> buys_armor, entry |-> entry,
         credits |-> IF buys_armor THEN after_weapon - armor_cost ELSE after_weapon,
         spent |-> (IF afford THEN cost ELSE 0) + (IF buys_armor THEN armor_cost ELSE 0)]

\* One iteration of the per-player loop: idx is the 0-based index, held the
\* value of self.player_credits[player_id] on entry.
BuyPlayer(idx, player, held, round_type, rn, is_test_team) ==
    LET is_pistol == IsPistolRound(rn)
        entry == IF is_pistol THEN PISTOL_CREDITS ELSE held
        armor_cost == IF is_pistol THEN PISTOL_ARMOR_COST ELSE ARMOR_COST
    IN  IF entry > 0
        THEN CHOOSE buy \in
                {Purchase(choice, PlayerRoundType(round_type, entry), entry, armor_cost) :
                    choice \in {WeaponChoice(idx, player, entry, round_type, is_test_team)}} :
                TRUE
        ELSE [weapon |-> "Classic", armor |-> FALSE, entry |-> entry,
              credits |-> entry, spent |-> 0]

\* The branch that assigns fixed loadouts to a team of five all-digit ids.
BuyTestPlayer(idx) ==
    LET w == IF idx = 0 THEN "Vandal" ELSE IF idx = 1 THEN "Phantom" ELSE "Spectre"
    IN  [weapon |-> w, armor |-> TRUE, entry |-> DEFAULT_CREDITS,
         credits |-> DEFAULT_CREDITS - WeaponCatalog[w].cost - ARMOR_COST,
         spent |-> 0]

RECURSIVE SumSpent(_, _)
SumSpent(buys, i) == IF i = 0 THEN 0 ELSE buys[i].spent + SumSpent(buys, i - 1)

\* The per-player loop over the team, in roster order
RECURSIVE BuyLoop(_, _, _, _, _, _)
BuyLoop(team, i, credits, round_type, rn, fixed) ==
    IF i = 0 THEN <<>>
    ELSE Append(BuyLoop(team, i - 1, credits, round_type, rn, fixed),
                IF fixed THEN BuyTestPlayer(i - 1)
                ELSE BuyPlayer(i - 1, team[i], credits[team[i].id],
                               round_type, rn, IsTestTeam(team)))

\* Result of _buy_phase for one team: per-player weapons, armor and credits,
\* the credits each player entered with, the spend written to the round's
\* economy log (logged = FALSE when the early return skips that write).
_buy_phase(team, team_economy, team_loss_streak, credits, rn) ==
    LET round_type == _determine_round_type(team_economy, team_loss_streak)
        fixed == IsTestTeam(team) /\ round_type = "full_buy"
                 /\ team_economy = TEST_TEAM_ECONOMY
        idx(id) == CHOOSE i \in 1..Len(team) : team[i].id = id
    IN  CHOOSE result \in
            {[weapons |-> [id \in TeamIds(team) |-> buys[idx(id)].weapon],
              armor   |-> [id \in TeamIds(team) |-> buys[idx(id)].armor],
              credits |-> [id \in TeamIds(team) |-> buys[idx(id)].credits],
              entry   |-> [id \in TeamIds(team) |-> buys[idx(id)].entry],
              logged  |-> ~fixed,
              total_spent |-> SumSpent(buys, Len(team))] :
                buys \in {BuyLoop(team, Len(team), credits, round_type, rn, fixed)}} :
            TRUE

\* ------------------------------------------------------------------------
\* Duel resolver (MatchEngine._simulate_duel)
\* ------------------------------------------------------------------------

\* 1000 x (aim*0.4*accuracy + movement*0.3*movement_accuracy + gameSense*0.3)
BaseRating(player, weapon) ==
    4 * player.coreStats.aim * weapon.accuracy
    + 3 * player.coreStats.movement * weapon.movement_accuracy
    + 300 * player.coreStats.gameSense

\* The factors without the x1.5 of a sniper at long range
AttackerSpecial_plain(weapon, distance) ==
    IF distance = "long" THEN 2
    ELSE IF distance = "close" THEN 5 ELSE 1

\* The x1.5 (sniper attacker, long) and x1.2 (SMG defender, close) factors
\* exclude each other, so each distance carries one common denominator.
AttackerSpecial(weapon, distance) ==
    IF distance = "long" THEN (IF weapon.type = "sniper" THEN 3 ELSE 2)
    ELSE IF distance = "close" THEN 5 ELSE 1

DefenderSpecial(weapon, distance) ==
    IF distance = "long" THEN 2
    ELSE IF distance = "close" THEN (IF weapon.type = "smg" THEN 6 ELSE 5) ELSE 1

\* The factor applied when the opponent wears no armor instead
ArmorFactor_unarmored(weapon, opponent_armor) ==
    IF opponent_armor THEN 40 ELSE 20 + weapon.armor_penetration

\* 40 x (1 - (1 - armor_penetration) * 0.5) when the opponent wears armor
ArmorFactor(weapon, opponent_armor) ==
    IF opponent_armor THEN 20 + weapon.armor_penetration ELSE 40

\* attacker_rating and defender_rating of _simulate_duel before the random
\* factors are applied (scaled by a common factor per distance)
attacker_rating(attacker, attacker_weapon, distance, defender_armor) ==
    LET att_weapon == WeaponCatalog[attacker_weapon]
    IN  BaseRating(attacker, att_weapon)
        * att_weapon.range_multipliers[distance]
        * AttackerSpecial(att_weapon, distance)
        * ArmorFactor(att_weapon, defender_armor)

defender_rating(defender, defender_weapon, distance, attacker_armor) ==
    LET def_weapon == WeaponCatalog[defender_weapon]
    IN  BaseRating(defender, def_weapon)
        * def_weapon.range_multipliers[distance]
        * DefenderSpecial(def_weapon, distance)
        * ArmorFactor(def_weapon, attacker_armor)

\* The result of the duel for one draw of the two random factors
_simulate_duel(att_rating, def_rating, attacker_jitter, defender_jitter) ==
    LET attacker_roll == att_rating * attacker_jitter
        defender_roll == def_rating * defender_jitter
    IN  attacker_roll > defender_roll

\* ------------------------------------------------------------------------
\* Round outcome and economy (MatchEngine._determine_round_winner,
\* _update_economy, _update_player_credits, _is_match_complete)
\* ------------------------------------------------------------------------
AttackingTeam(rn) == IF rn % 24 < 12 THEN "team_a" ELSE "team_b"

RoundInProgress_plant_only(alive, planted) == ~planted

\* Condition of the engagement loop
RoundInProgress(alive, planted) ==
    Cardinality(alive["team_a"]) > 0 /\ Cardinality(alive["team_b"]) > 0 /\ ~planted

_determine_round_winner(alive, planted, rn) ==
    IF rn % 2 = 0
    THEN (IF Cardinality(alive["team_b"]) = 0 THEN "team_a"
          ELSE IF Cardinality(alive["team_a"]) = 0 THEN "team_b"
          ELSE IF planted THEN "team_a" ELSE "team_b")
    ELSE (IF Cardinality(alive["team_a"]) = 0 THEN "team_b"
          ELSE IF Cardinality(alive["team_b"]) = 0 THEN "team_a"
          ELSE IF planted THEN "team_b" ELSE "team_a")

ScoreAfter_both(sc, winner) ==
    [sc EXCEPT !["team_a"] = @ + 1, !["team_b"] = @ + 1]

ScoreAfter(sc, winner) ==
    IF winner = "team_a" THEN [sc EXCEPT !["team_a"] = @ + 1]
    ELSE [sc EXCEPT !["team_b"] = @ + 1]

_is_match_complete_late(sc) == sc["team_a"] >= WIN_SCORE + 1 \/ sc["team_b"] >= WIN_SCORE + 1

_is_match_complete(sc) == sc["team_a"] >= WIN_SCORE \/ sc["team_b"] >= WIN_SCORE

LossStreaksAfter_noreset(streaks, winning_team) ==
    [streaks EXCEPT ![OtherTeam(winning_team)] = @ + 1]

\* self.loss_streaks[winning_team] = 0; self.loss_streaks[losing_team] += 1
LossStreaksAfter(streaks, winning_team) ==
    [streaks EXCEPT ![winning_team] = 0, ![OtherTeam(winning_team)] = @ + 1]

LossBonus_none(streak) == 0

LossBonus(streak) == LOSS_STREAK_BONUS[Min(streak, 4) + 1]

WinnerCredits(current_credits, is_new_half) ==
    IF is_new_half THEN PISTOL_CREDITS ELSE Min(MAX_MONEY, current_credits + WIN_REWARD)

LoserCredits(current_credits, loss_bonus, is_new_half) ==
    IF is_new_half THEN PISTOL_CREDITS
    ELSE Max(MIN_MONEY, Min(MAX_MONEY, current_credits + loss_bonus))

\* streaks is self.loss_streaks as _update_economy has left it: the losing
\* team's streak is already incremented when the bonus is looked up here.
_update_player_credits(winning_team, losing_team, planted, rn, streaks, credits, match) ==
    LET loss_bonus == LossBonus(streaks[losing_team])
        is_new_half == rn = SECOND_HALF_ROUND
        winning_ids == TeamIds(match[winning_team])
        planting_ids == TeamIds(match[AttackingTeam(rn)])
        rewarded == [id \in DOMAIN credits |->
                        IF id \in winning_ids
                        THEN WinnerCredits(credits[id], is_new_half)
                        ELSE LoserCredits(credits[id], loss_bonus, is_new_half)]
    IN  [id \in DOMAIN credits |->
            IF planted /\ id \in planting_ids /\ ~is_new_half
            THEN Min(MAX_MONEY, rewarded[id] + PLANT_BONUS)
            ELSE rewarded[id]]

RewardKey(team) == IF team = "team_a" THEN "team_a_reward" ELSE "team_b_reward"

_update_economy(winning_team, planted, rn, econ, streaks, credits, log, match) ==
    LET losing_team == OtherTeam(winning_team)
        econ1 == [econ EXCEPT ![winning_team] = Min(MAX_MONEY, @ + WIN_REWARD)]
        loss_bonus == LossBonus(streaks[losing_team])
        econ2 == [econ1 EXCEPT ![losing_team] = Max(MIN_MONEY, Min(MAX_MONEY, @ + loss_bonus))]
        streaks2 == LossStreaksAfter(streaks, winning_team)
        log2 == [log EXCEPT ![RewardKey(winning_team)] = WIN_REWARD,
                            ![RewardKey(losing_team)] = loss_bonus]
        planting_team == IF rn % 2 = 0 THEN "team_a" ELSE "team_b"
        econ3 == IF planted
                 THEN [econ2 EXCEPT ![planting_team] = Min(MAX_MONEY, @ + PLANT_BONUS)]
                 ELSE econ2
        log3 == IF planted
                THEN [log2 EXCEPT ![RewardKey(planting_team)] = @ + PLANT_BONUS]
                ELSE log2
        credits2 == _update_player_credits(winning_team, losing_team, planted, rn,
                                           streaks2, credits, match)
        econ4 == [t \in Teams |-> Min(MAX_MONEY, econ3[t])]
    IN  [economy |-> econ4, loss_streaks |-> streaks2, player_credits |-> credits2,
         log |-> [log3 EXCEPT !.team_a_end = econ4["team_a"],
                              !.team_b_end = econ4["team_b"]]]

\* ------------------------------------------------------------------------
\* Agent selection (MatchEngine._select_agents_for_teams, _get_agent_role)
\* ------------------------------------------------------------------------
RoleClasses == {"Duelist", "Controller", "Sentinel", "Initiator"}

AgentRoles ==
    [Duelist    |-> {"Jett", "Phoenix", "Raze", "Reyna", "Yoru", "Neon", "ISO"},
     Controller |-> {"Brimstone", "Viper", "Omen", "Astra", "Harbor", "Clove"},
     Sentinel   |-> {"Killjoy", "Cypher", "Sage", "Chamber", "Deadlock"},
     Initiator  |-> {"Sova", "Breach", "Skye", "KAY/O", "Fade", "Gekko"}]

KnownAgents == UNION {AgentRoles[role] : role \in RoleClasses}

\* The role whose list holds the agent; 'Duelist' when no list holds it
_get_agent_role(agent) ==
    IF agent \in KnownAgents
    THEN CHOOSE role \in RoleClasses : agent \in AgentRoles[role]
    ELSE "Duelist"

\* str.lower() on the role names
Lower(role) ==
    CASE role = "Duelist" -> "duelist"
      [] role = "Controller" -> "controller"
      [] role = "Sentinel" -> "sentinel"
      [] role = "Initiator" -> "initiator"
      [] OTHER -> role

required_roles == {"duelist", "controller", "sentinel", "initiator"}

\* p.get('roleProficiencies', {}).get(p.get('primaryRole', 'Flex'), 0)
RoleProficiencyKey(player) ==
    IF "roleProficiencies" \in DOMAIN player
       /\ player.primaryRole \in DOMAIN player.roleProficiencies
    THEN player.roleProficiencies[player.primaryRole]
    ELSE 0

\* One step of the stable sort with reverse=True: the player goes after
\* every player whose key is at least as high.
SortInsert(sorted, player) ==
    LET k == Cardinality({j \in 1..Len(sorted) :
                            RoleProficiencyKey(sorted[j]) >= RoleProficiencyKey(player)})
    IN  SubSeq(sorted, 1, k) \o <<player>> \o SubSeq(sorted, k + 1, Len(sorted))

RECURSIVE SortedTeam(_, _)
SortedTeam(team, i) ==
    IF i = 0 THEN <<>> ELSE SortInsert(SortedTeam(team, i - 1), team[i])

NoAgents == [id \in {} |-> "None"]

\* dict assignment d[key] = value
Assign(d, key, value) ==
    [k \in DOMAIN d \cup {key} |-> IF k = key THEN value ELSE d[k]]

AgentChoice_best(player, selected_roles) ==
    [agent |-> IF Len(player.agentProficiencies) > 0
               THEN BestAgentFrom(player.agentProficiencies, 1, 1)
               ELSE "Jett",
     role |-> "None"]

\* The agent given to one player, and whether it fills the player's role
AgentChoice(player, selected_roles) ==
    LET agent_profs == player.agentProficiencies
        primary_role == Lower(player.primaryRole)
        role_agents == SelectSeq(agent_profs,
                                 LAMBDA pr : Lower(_get_agent_role(pr[1])) = primary_role)
        role_needed == primary_role \in required_roles
                       /\ selected_roles[primary_role] < 1
    IN  IF role_needed /\ Len(role_agents) > 0
        THEN [agent |-> BestAgentFrom(role_agents, 1, 1), role |-> primary_role]
        ELSE [agent |-> IF Len(agent_profs) > 0 THEN BestAgentFrom(agent_profs, 1, 1)
                        ELSE "Jett",
              role |-> "None"]

\* The loop over the sorted players of one team
RECURSIVE SelectLoop(_, _)
SelectLoop(sorted, i) ==
    IF i = 0
    THEN [player_agents |-> NoAgents, selected_roles |-> [r \in required_roles |-> 0]]
    ELSE CHOOSE next \in
            {[player_agents |-> Assign(prev.player_agents, sorted[i].id, choice.agent),
              selected_roles |-> IF choice.role = "None" THEN prev.selected_roles
                                 ELSE [prev.selected_roles EXCEPT ![choice.role] = @ + 1]] :
                <<prev, choice>> \in
                    {<<before, AgentChoice(sorted[i], before.selected_roles)>> :
                        before \in {SelectLoop(sorted, i - 1)}}} :
            TRUE

SelectTeamAgents(team) == SelectLoop(SortedTeam(team, Len(team)), Len(team)).player_agents

\* Team B's assignments are written into the same mapping after team A's
_select_agents_for_teams(team_a, team_b) ==
    LET agents_a == SelectTeamAgents(team_a)
        agents_b == SelectTeamAgents(team_b)
    IN  [id \in DOMAIN agents_a \cup DOMAIN agents_b |->
            IF id \in DOMAIN agents_b THEN agents_b[id] ELSE agents_a[id]]

\* ------------------------------------------------------------------------
\* Most valuable player (MatchEngine._calculate_mvp)
\* ------------------------------------------------------------------------

\* 10 x (kdRatio * 0.4 + clutchRate * 0.3 + firstBloodRate * 0.3)
Performance(player) ==
    4 * player.careerStats.kdRatio + 3 * player.careerStats.clutchRate
    + 3 * player.careerStats.firstBloodRate

\* best_performance = None before the first player
NoPerformance == -1

MvpReplaced_last(best_performance, performance) == TRUE

\* "not best_performance" holds for None and for 0.0
MvpReplaced(best_performance, performance) ==
    \/ best_performance = NoPerformance
    \/ best_performance = 0
    \/ performance > best_performance

RECURSIVE MvpLoop(_, _)
MvpLoop(players, i) ==
    IF i = 0 THEN [best_performance |-> NoPerformance, mvp_id |-> "None"]
    ELSE CHOOSE next \in
            {IF MvpReplaced(prev.best_performance, Performance(players[i]))
             THEN [best_performance |-> Performance(players[i]), mvp_id |-> players[i].id]
             ELSE prev :
                prev \in {MvpLoop(players, i - 1)}} :
            TRUE

\* player["careerStats"]["kdRatio"], ["clutchRate"], ["firstBloodRate"] can be
\* read
HasMvpStats(player) ==
    /\ "careerStats" \in DOMAIN player
    /\ {"kdRatio", "clutchRate", "firstBloodRate"} \subseteq DOMAIN player.careerStats

\* _calculate_mvp raises KeyError at the first player without these fields
MvpRaises(match) ==
    \E i \in 1..Len(match.team_a \o match.team_b) :
        ~HasMvpStats((match.team_a \o match.team_b)[i])

_calculate_mvp(match) ==
    IF match.team_a = <<>> /\ match.team_b = <<>> THEN "None"
    ELSE MvpLoop(match.team_a \o match.team_b, Len(match.team_a) + Len(match.team_b)).mvp_id

\* ------------------------------------------------------------------------
\* State of one MatchEngine instance
\* ------------------------------------------------------------------------
VARIABLES
    pc,               \* position in simulate_match
    current_match,    \* teams of the match being simulated
    round_number,
    score,
    economy,
    player_credits,
    loss_streaks,
    economy_log,      \* last entry of self.economy_logs
    num_logs,         \* len(self.economy_logs)
    round_result,     \* result of the round just completed (rounds[-1])
    num_rounds,       \* len(rounds)
    alive_players,
    spike_planted,
    clutch_player,
    round_weapons,
    round_armor,
    entry_credits,    \* credits each player entered the last buy phase with
    attacking_team,
    match_result,
    map_name,         \* current_match.map_name
    player_agents,
    request,          \* simulate request being handled by the API, if any
    seed,             \* seed of the random module fixed by the caller, if any
    previous,         \* result of the previous call, kept by a caller that replays it
    event_time,       \* simulated seconds since the start of the round
    map_events,       \* map_data.events of the round: event type and timestamp
    advice,           \* a call of BuyPreferences.decide_buy: arguments and result
    duel,             \* calls of _simulate_duel on one pair of players: arguments, draws, results
    map_collection,   \* map_collection.maps: the layouts by key
    map_response      \* the last call of a maps endpoint or of add_map, with its answer

vars == <<pc, current_match, round_number, score, economy, player_credits,
          loss_streaks, economy_log, num_logs, round_result, num_rounds,
          alive_players, spike_planted, clutch_player, round_weapons,
          round_armor, entry_credits, attacking_team, match_result, map_name,
          player_agents, request, seed, previous, event_time, map_events,
          advice, duel, map_collection, map_response>>

round_vars == <<alive_players, spike_planted, clutch_player, round_weapons,
                round_armor, entry_credits, attacking_team, event_time, map_events>>

NoMatch == [team_a |-> <<>>, team_b |-> <<>>]

NoPlayers == [id \in {} |-> 0]

NoResult ==
    [winner |-> "None", economy |-> [t \in Teams |-> 0], spike_planted |-> FALSE,
     clutch_player |-> "None", survivors |-> [t \in Teams |-> 0],
     player_credits |-> NoPlayers, is_pistol_round |-> FALSE,
     loadout_agents |-> NoAgents, total_spend |-> NoPlayers, events |-> <<>>]

NoMatchResult ==
    [score |-> [t \in Teams |-> 0], rounds |-> 0, duration |-> 0, map |-> "None",
     mvp |-> "None", economy_logs |-> 0, player_agents |-> NoAgents]

NoDuel == <<>>

\* MapLayout: the identifier, the name and the image of the layout
MapLayout(id, name, image_url) == [id |-> id, name |-> name, image_url |-> image_url]

\* None as the result of MapCollection.get_map
NoLayout == MapLayout("None", "None", "None")

\* str.lower().replace(" ", "_") on the map names that occur
CleanMapId(name) ==
    CASE name = "Haven" -> "haven"
      [] name = "haven" -> "haven"
      [] name = "Atlantis" -> "atlantis"
      [] name = "My Map" -> "my_map"
      [] name = "my_map" -> "my_map"
      [] OTHER -> name

\* MapCollection.add_map: self.maps[map_layout.name] = map_layout
add_map(collection, map_layout) ==
    [k \in DOMAIN collection \cup {map_layout.name} |->
        IF k = map_layout.name THEN map_layout ELSE collection[k]]

\* MapCollection.get_map: self.maps.get(map_name)
get_map(collection, name) ==
    IF name \in DOMAIN collection THEN collection[name] ELSE NoLayout

NoResponse == [op |-> "None", map_layout |-> NoLayout, map_id |-> "None", answer |-> FALSE]

NoAdvice ==
    [player |-> [id |-> "None"], available_credits |-> 0, round_type |-> "None",
     weapon |-> "None"]

NoRequest ==
    [team_a |-> <<>>, team_b |-> <<>>, map_name |-> "None", agent_selections |-> NoAgents]

\* Map names of the requests; only those of MapCatalog are in map_collection
MapNames == {"Haven", "Atlantis"}
MapCatalog == {"Haven"}

\* map_collection.maps during the matches: the layouts of MapCatalog
CatalogMaps ==
    [name \in MapCatalog |-> MapLayout(CleanMapId(name), name, "/static/maps/default.jpg")]

\* round(duration, 2) of the wall clock time of the call, in hundredths of a
\* minute
DurationSet == {0, 1}

\* Seeds the caller can give to the random module; each fixes the sequence
\* of draws: "plant" never engages and plants at once, "duel" always
\* engages the first players at close range and never plants.
Seeds == {"plant", "duel"}

EconomyLog_stale(rn, econ) ==
    [round_number |-> 0,
     team_a_start |-> econ["team_a"], team_b_start |-> econ["team_b"],
     team_a_spend |-> 0, team_b_spend |-> 0,
     team_a_end |-> econ["team_a"], team_b_end |-> econ["team_b"],
     team_a_reward |-> 0, team_b_reward |-> 0,
     winner |-> "None", spike_planted |-> FALSE]

\* A new entry of self.economy_logs
EconomyLog(rn, econ) ==
    [round_number |-> rn,
     team_a_start |-> econ["team_a"], team_b_start |-> econ["team_b"],
     team_a_spend |-> 0, team_b_spend |-> 0,
     team_a_end |-> econ["team_a"], team_b_end |-> econ["team_b"],
     team_a_reward |-> 0, team_b_reward |-> 0,
     winner |-> "None", spike_planted |-> FALSE]

PlayerById(match, id) ==
    LET all == match["team_a"] \o match["team_b"]
    IN  all[CHOOSE i \in 1..Len(all) : all[i].id = id]

\* MatchEngine.__init__: every field of a new engine
FreshEngine ==
    /\ current_match = NoMatch
    /\ round_number = 0
    /\ score = [t \in Teams |-> 0]
    /\ economy = [t \in Teams |-> START_ECONOMY]
    /\ player_credits = NoPlayers
    /\ loss_streaks = [t \in Teams |-> 0]
    /\ economy_log = EconomyLog(0, [t \in Teams |-> START_ECONOMY])
    /\ num_logs = 0
    /\ round_result = NoResult
    /\ num_rounds = 0
    /\ alive_players = [t \in Teams |-> {}]
    /\ spike_planted = FALSE
    /\ clutch_player = "None"
    /\ round_weapons = [t \in Teams |-> NoPlayers]
    /\ round_armor = [t \in Teams |-> NoPlayers]
    /\ entry_credits = NoPlayers
    /\ attacking_team = "team_a"
    /\ match_result = NoMatchResult
    /\ map_name = "None"
    /\ player_agents = NoAgents
    /\ seed = "None"
    /\ previous = NoMatchResult
    /\ event_time = 0
    /\ map_events = <<>>

Init ==
    /\ pc = "idle"
    /\ request = NoRequest
    /\ advice = NoAdvice
    /\ duel = NoDuel
    /\ map_collection = CatalogMaps
    /\ map_response = NoResponse
    /\ FreshEngine

\* simulate_match up to the round loop, called with two teams and a map name
simulate_match(team_a, team_b, map) ==
    /\ current_match' = [team_a |-> team_a, team_b |-> team_b]
    /\ map_name' = map
    /\ player_credits' = [id \in TeamIds(team_a) \cup TeamIds(team_b) |-> PISTOL_CREDITS]
    /\ player_agents' = _select_agents_for_teams(team_a, team_b)
    /\ round_number' = 0
    /\ score' = [t \in Teams |-> 0]
    /\ economy' = [t \in Teams |-> START_ECONOMY]
    /\ loss_streaks' = [t \in Teams |-> 0]
    /\ economy_log' = EconomyLog(0, [t \in Teams |-> START_ECONOMY])
    /\ num_logs' = 1
    /\ round_result' = NoResult
    /\ num_rounds' = 0
    /\ alive_players' = [t \in Teams |-> {}]
    /\ spike_planted' = FALSE
    /\ clutch_player' = "None"
    /\ round_weapons' = [t \in Teams |-> NoPlayers]
    /\ round_armor' = [t \in Teams |-> NoPlayers]
    /\ entry_credits' = NoPlayers
    /\ attacking_team' = "team_a"
    /\ match_result' = NoMatchResult
    /\ event_time' = 0
    /\ map_events' = <<>>
    /\ pc' = "round"

\* A call of simulate_match; the engine object is reused by successive calls.
StartMatch ==
    /\ pc \in {"idle", "done", "error"}
    /\ \E oa \in RosterOffsets, ob \in RosterOffsets, map \in MapNames :
        simulate_match(Roster(IdsA, oa), Roster(IdsB, ob), map)
    /\ UNCHANGED <<request, seed, previous, advice, duel, map_collection, map_response>>

\* _simulate_round up to the engagement loop: new economy log entry, both buy
\* phases, round state, sides.
BeginRound ==
    /\ pc = "round"
    /\ \E buy_a \in {_buy_phase(current_match["team_a"], economy["team_a"],
                                loss_streaks["team_a"], player_credits, round_number)} :
       \E credits_a \in {[id \in DOMAIN player_credits |->
                            IF id \in DOMAIN buy_a.credits THEN buy_a.credits[id]
                            ELSE player_credits[id]]} :
       \E buy_b \in {_buy_phase(current_match["team_b"], economy["team_b"],
                                loss_streaks["team_b"], credits_a, round_number)} :
           /\ player_credits' = [id \in DOMAIN player_credits |->
                                    IF id \in DOMAIN buy_b.credits THEN buy_b.credits[id]
                                    ELSE credits_a[id]]
           /\ economy_log' =
                [EconomyLog(round_number, economy) EXCEPT
                    !.team_a_spend = IF buy_a.logged THEN buy_a.total_spent ELSE 0,
                    !.team_b_spend = IF buy_b.logged THEN buy_b.total_spent ELSE 0]
           /\ round_weapons' = [team_a |-> buy_a.weapons, team_b |-> buy_b.weapons]
           /\ round_armor' = [team_a |-> buy_a.armor, team_b |-> buy_b.armor]
           /\ entry_credits' = [id \in DOMAIN player_credits |->
                                  IF id \in DOMAIN buy_a.entry THEN buy_a.entry[id]
                                  ELSE buy_b.entry[id]]
    /\ num_logs' = num_logs + 1
    /\ alive_players' = [t \in Teams |-> TeamIds(current_match[t])]
    /\ spike_planted' = FALSE
    /\ clutch_player' = "None"
    /\ attacking_team' = AttackingTeam(round_number)
    /\ round_result' = NoResult
    /\ event_time' = 0
    /\ map_events' = <<>>
    /\ pc' = IF map_name \in MapCatalog THEN "loop" ELSE "error"
    /\ UNCHANGED <<current_match, round_number, score, economy, loss_streaks,
                   num_rounds, match_result, map_name, player_agents,
                   request, seed, previous, advice, duel, map_collection, map_response>>

\* Outcomes of the duel that the jitter draws can produce
DuelOutcomes(match, attacker, defender, weapons, armor, att_team, distance) ==
    {_simulate_duel(att_rating, def_rating, attacker_jitter, defender_jitter) :
        att_rating \in {attacker_rating(PlayerById(match, attacker),
                                        weapons[att_team][attacker], distance,
                                        armor[OtherTeam(att_team)][defender])},
        def_rating \in {defender_rating(PlayerById(match, defender),
                                        weapons[OtherTeam(att_team)][defender], distance,
                                        armor[att_team][attacker])},
        attacker_jitter \in JitterSet, defender_jitter \in JitterSet}

\* An iteration without an engagement
NoEngagement(alive) == [alive |-> alive, kill |-> <<>>]

\* "Attacker wins": the defender is the victim; otherwise the attacker is.
\* kill is <<killer, victim>>.
Engagement(alive, att_team, attacker, defender, duel_result) ==
    IF duel_result
    THEN [alive |-> [alive EXCEPT ![OtherTeam(att_team)] = @ \ {defender}],
          kill |-> <<attacker, defender>>]
    ELSE [alive |-> [alive EXCEPT ![att_team] = @ \ {attacker}],
          kill |-> <<defender, attacker>>]

\* For every alive_players that the outcomes leave, one of the outcomes
OnePerSurvivors(outcomes) ==
    {CHOOSE outcome \in outcomes : outcome.alive = alive :
        alive \in {outcome.alive : outcome \in outcomes}}

\* alive_players and the kill after the engagement of one iteration, for
\* every draw of random.random() < 0.7, of the two players, the distance and
\* the jitter
AfterEngagement(match, alive, weapons, armor, att_team) ==
    {NoEngagement(alive)} \cup
    UNION {{Engagement(alive, att_team, attacker, defender, duel_result) :
                duel_result \in UNION {DuelOutcomes(match, attacker, defender, weapons,
                                                    armor, att_team, distance) :
                                          distance \in Distances}} :
           attacker \in alive[att_team], defender \in alive[OtherTeam(att_team)]}

LoadoutAgent_unknown(agents, player_id) == "Unknown"

\* self.player_agents.get(player_id, "Unknown") of the round's loadouts
LoadoutAgent(agents, player_id) ==
    IF player_id \in DOMAIN agents THEN agents[player_id] ELSE "Unknown"

\* total_spend of a player's loadout: the weapon's catalog cost plus 1000
\* when the player has armor
LoadoutSpend(weapon, armor) ==
    WeaponCatalog[weapon].cost + (IF armor THEN ARMOR_COST ELSE 0)

\* The first player of the team's roster who is alive
FirstAlive(match, team, alive) ==
    LET roster == match[team]
    IN  roster[CHOOSE i \in 1..Len(roster) :
                /\ roster[i].id \in alive[team]
                /\ \A j \in 1..(i - 1) : roster[j].id \notin alive[team]].id

\* alive_players and the kill after the engagement that the seed "duel" draws: the first
\* attacker against the first defender at close range, the largest random
\* factor for the attacker and the smallest for the defender
SeededEngagement(match, alive, weapons, armor, att_team) ==
    LET attacker == FirstAlive(match, att_team, alive)
        defender == FirstAlive(match, OtherTeam(att_team), alive)
        duel_result ==
            _simulate_duel(attacker_rating(PlayerById(match, attacker),
                                           weapons[att_team][attacker], "close",
                                           armor[OtherTeam(att_team)][defender]),
                           defender_rating(PlayerById(match, defender),
                                           weapons[OtherTeam(att_team)][defender], "close",
                                           armor[att_team][attacker]),
                           3, 2)
    IN  Engagement(alive, att_team, attacker, defender, duel_result)

\* event_time += random.uniform(5.0, 15.0): the ends of the range
MinTimeStep == 5
MaxTimeStep == 15
TimeSteps == {MinTimeStep, MaxTimeStep}

EventTimeAfter_restart(time, step) == step

\* "Move time forward"
EventTimeAfter(time, step) == time + step

\* MapEvent(event_type=..., timestamp=event_time, player_id=..., target_id=...)
MapEvent(event_type, timestamp, player_id, target_id) ==
    [event_type |-> event_type, timestamp |-> timestamp,
     player_id |-> player_id, target_id |-> target_id]

\* The event as followed: with its ids, or without them
EventOf(event, players_explored) ==
    IF players_explored THEN event
    ELSE [event EXCEPT !.player_id = "None", !.target_id = "None"]

\* Where the time steps are explored they are in the first rounds of a call
\* without a seed, together with the other draws.
TimesExplored == seed = "None" /\ round_number < TimedRounds

\* The draws of a call are all explored in the first rounds of a call without
\* a seed; elsewhere they follow one sequence.
DrawsExplored == seed = "None" /\ round_number < ContestedRounds

DrawSequence == IF seed = "None" THEN "plant" ELSE seed

\* The team lists if alive_players held the lists themselves: remove() would
\* take the eliminated players out of them
TeamsAfterRemove_aliased(match, alive) ==
    [t \in Teams |-> SelectSeq(match[t], LAMBDA player : player.id \in alive[t])]

\* The team lists of current_match after alive_players[team].remove(player):
\* alive_players holds copies of the lists, which stay as they are
TeamsAfterRemove(match, alive) == match

\* The planter drawn from the attacking roster, eliminated players included
Planters_roster(match, alive, att_team, plant, players_explored) ==
    IF ~plant \/ alive[att_team] = {} THEN {"None"}
    ELSE IF players_explored THEN TeamIds(match[att_team])
    ELSE {FirstAlive(match, att_team, alive)}

\* planter = random.choice(alive_players[attacking_team]) of an iteration
\* that plants
Planters(match, alive, att_team, plant, players_explored) ==
    IF ~plant \/ alive[att_team] = {} THEN {"None"}
    ELSE IF players_explored THEN alive[att_team]
    ELSE {FirstAlive(match, att_team, alive)}

\* One iteration of the engagement loop: an engagement with probability 0.7,
\* then a plant with probability 0.3 while an attacker is alive.
\* draws_explored: every draw is followed; times_explored: every time step
\* and the iterations that change nothing but the time are followed;
\* players_explored: every killer of a victim and every planter is followed
\* and the events carry the players' ids; otherwise the events are followed
\* without player_id and target_id.
EngagementLoop(draws_explored, times_explored, players_explored) ==
    /\ pc = "loop"
    /\ RoundInProgress(alive_players, spike_planted)
    /\ \E engagement \in
            (IF draws_explored /\ players_explored
             THEN AfterEngagement(current_match, alive_players, round_weapons,
                                  round_armor, attacking_team)
             ELSE IF draws_explored
             THEN OnePerSurvivors(AfterEngagement(current_match, alive_players,
                                                  round_weapons, round_armor,
                                                  attacking_team))
             ELSE IF DrawSequence = "plant" THEN {NoEngagement(alive_players)}
             ELSE {SeededEngagement(current_match, alive_players, round_weapons,
                                    round_armor, attacking_team)}),
          plant \in (IF draws_explored THEN BOOLEAN ELSE {DrawSequence = "plant"}),
          step \in (IF times_explored THEN TimeSteps ELSE {MinTimeStep}) :
       \E planter \in Planters(current_match, engagement.alive, attacking_team,
                                plant, draws_explored /\ players_explored) :
        LET alive == engagement.alive
            defending_team == OtherTeam(attacking_team)
            clutch == alive # alive_players
                      /\ Cardinality(alive[attacking_team]) = 1
                      /\ Cardinality(alive[defending_team]) >= 2
        IN  /\ alive_players' = alive
            /\ current_match' = TeamsAfterRemove(current_match, alive)
            /\ clutch_player' = IF clutch
                                THEN CHOOSE id \in alive[attacking_team] : TRUE
                                ELSE clutch_player
            /\ spike_planted' = (Cardinality(alive[attacking_team]) > 0 /\ plant)
            /\ event_time' = EventTimeAfter(event_time, step)
            /\ map_events' = map_events
                    \o (IF engagement.kill # <<>>
                        THEN <<EventOf(MapEvent("kill", event_time', engagement.kill[1],
                                                engagement.kill[2]), players_explored)>>
                        ELSE <<>>)
                    \o (IF spike_planted'
                        THEN <<EventOf(MapEvent("plant", event_time', planter, "None"),
                                       players_explored)>>
                        ELSE <<>>)
            /\ (alive = alive_players /\ ~spike_planted') =>
                    (times_explored /\ event_time' <= MaxEventTime)
    /\ UNCHANGED <<pc, round_number, score, economy, player_credits,
                   loss_streaks, economy_log, num_logs, round_result, num_rounds,
                   round_weapons, round_armor, entry_credits, attacking_team,
                   match_result, map_name, player_agents, request, seed,
                   previous, advice, duel, map_collection, map_response>>

\* One iteration of the engagement loop, every iteration taking the shortest
\* time step
LoopIteration == EngagementLoop(DrawsExplored, FALSE, FALSE)

\* End of _simulate_round and the rest of the loop body of simulate_match:
\* winner, round result, score, economy, round counter.
EndRound ==
    /\ pc = "loop"
    /\ ~RoundInProgress(alive_players, spike_planted)
    /\ \E winner \in {_determine_round_winner(alive_players, spike_planted, round_number)} :
       \E upd \in {_update_economy(winner, spike_planted, round_number, economy,
                                   loss_streaks, player_credits,
                                   [economy_log EXCEPT !.spike_planted = spike_planted,
                                                       !.winner = winner],
                                   current_match)} :
           /\ round_result' =
                [winner |-> winner, economy |-> economy, spike_planted |-> spike_planted,
                 clutch_player |-> clutch_player,
                 survivors |-> [t \in Teams |-> Cardinality(alive_players[t])],
                 player_credits |-> player_credits,
                 is_pistol_round |-> IsPistolRound(round_number),
                 loadout_agents |-> [id \in DOMAIN player_credits |->
                                        LoadoutAgent(player_agents, id)],
                 total_spend |->
                    [id \in DOMAIN player_credits |->
                        CHOOSE spend \in
                            {LoadoutSpend(round_weapons[t][id], round_armor[t][id]) :
                                t \in {u \in Teams : id \in DOMAIN round_weapons[u]}} :
                            TRUE],
                 events |-> map_events]
           /\ score' = ScoreAfter(score, winner)
           /\ economy' = upd.economy
           /\ loss_streaks' = upd.loss_streaks
           /\ player_credits' = upd.player_credits
           /\ economy_log' = upd.log
    /\ num_rounds' = num_rounds + 1
    /\ round_number' = round_number + 1
    /\ pc' = IF _is_match_complete(score') THEN "finish" ELSE "round"
    /\ alive_players' = [t \in Teams |-> {}]
    /\ spike_planted' = FALSE
    /\ clutch_player' = "None"
    /\ round_weapons' = [t \in Teams |-> NoPlayers]
    /\ round_armor' = [t \in Teams |-> NoPlayers]
    /\ event_time' = 0
    /\ map_events' = <<>>
    /\ UNCHANGED <<current_match, num_logs, match_result, entry_credits, attacking_team,
                   map_name, player_agents, request, seed, previous, advice, duel, map_collection, map_response>>

\* simulate_match after the round loop; an exception of _calculate_mvp leaves
\* the call without a result
Return ==
    /\ pc = "finish"
    /\ \E duration \in DurationSet :
        IF MvpRaises(current_match)
        THEN /\ match_result' = match_result
             /\ pc' = "error"
        ELSE /\ match_result' =
                    [score |-> score, rounds |-> num_rounds, duration |-> duration,
                     map |-> map_name, mvp |-> _calculate_mvp(current_match),
                     economy_logs |-> num_logs, player_agents |-> player_agents]
             /\ pc' = "done"
    /\ UNCHANGED <<current_match, round_number, score, economy, player_credits,
                   loss_streaks, economy_log, num_logs, round_result, num_rounds,
                   map_name, player_agents, request, seed, previous, advice, duel, map_collection, map_response>>
    /\ UNCHANGED round_vars

\* The body of simulate_match once it has been called
SimulateMatchStep == BeginRound \/ LoopIteration \/ EndRound \/ Return

Next == StartMatch \/ SimulateMatchStep

Spec == Init /\ [][Next]_vars

\* The random draws are fair: a round in progress eventually sees a draw that
\* changes its state, and the sequential code of simulate_match keeps running.
\* At most one of the steps of simulate_match is enabled in any state.
LiveSpec == Spec /\ WF_vars(SimulateMatchStep)

\* ------------------------------------------------------------------------
\* Properties
\* ------------------------------------------------------------------------
MatchTeamIds(t) == TeamIds(current_match[t])

\* A round has been completed and its result and economy log entry are final
RoundCompleted == pc \in {"round", "finish", "done"} /\ num_rounds > 0

\* C1: when simulate_match returns, exactly one of the two scores equals 13,
\* the other is in 0..12, the number of round results is 13 plus the smaller
\* score; no round is played once a team has reached 13.
C1_ScoreTermination ==
    /\ pc = "done" =>
        LET a == match_result.score["team_a"]
            b == match_result.score["team_b"]
        IN  /\ (a = WIN_SCORE) # (b = WIN_SCORE)
            /\ a \in 0..WIN_SCORE /\ b \in 0..WIN_SCORE
            /\ match_result.rounds = WIN_SCORE + Min(a, b)
    /\ pc \in {"round", "loop"} =>
        score["team_a"] < WIN_SCORE /\ score["team_b"] < WIN_SCORE

C1_Witness ==
    pc = "done" /\ match_result.score["team_a"] = WIN_SCORE /\ match_result.rounds > WIN_SCORE

C3_ScoreCountsRounds ==
    [][round_number' = round_number + 1 =>
        /\ score'["team_a"] + score'["team_b"] = round_number'
        /\ num_rounds' = round_number'
        /\ \E t \in Teams :
            /\ score'[t] = score[t] + 1
            /\ score'[OtherTeam(t)] = score[OtherTeam(t)]]_vars

C3_Witness ==
    pc = "round" /\ round_number = 7 /\ score["team_a"] = 3 /\ score["team_b"] = 4

\* C4: after every round the winner's loss streak is 0 and the loser's loss
\* streak is its previous value plus one.
C4_LossStreakLaw ==
    [][round_number' = round_number + 1 =>
        LET winner == round_result'.winner
        IN  /\ winner \in Teams
            /\ loss_streaks'[winner] = 0
            /\ loss_streaks'[OtherTeam(winner)] = loss_streaks[OtherTeam(winner)] + 1]_vars

\* five straight losses from streak 0
C4_Witness ==
    RoundCompleted /\ round_number = 5 /\ loss_streaks["team_b"] = 5
    /\ loss_streaks["team_a"] = 0

\* C5 (as stated): in every round every player's credits, as held by the
\* engine and as reported in the round result, lie in MIN_MONEY..MAX_MONEY.
C5_CreditsAtLeastMinMoney ==
    RoundCompleted =>
        /\ \A id \in DOMAIN player_credits :
            MIN_MONEY <= player_credits[id] /\ player_credits[id] <= MAX_MONEY
        /\ \A id \in DOMAIN round_result.player_credits :
            /\ MIN_MONEY <= round_result.player_credits[id]
            /\ round_result.player_credits[id] <= MAX_MONEY

\* C5 (amended): in every round every player's credits, as held by the engine
\* and as reported in the round result, lie in 0..MAX_MONEY.
C5_CreditsWithinCap ==
    /\ \A id \in DOMAIN player_credits :
        0 <= player_credits[id] /\ player_credits[id] <= MAX_MONEY
    /\ \A id \in DOMAIN round_result.player_credits :
        /\ 0 <= round_result.player_credits[id]
        /\ round_result.player_credits[id] <= MAX_MONEY

\* a player who spent everything in the buy phase, another above MIN_MONEY
C5_Witness ==
    /\ RoundCompleted
    /\ \E id \in DOMAIN round_result.player_credits : round_result.player_credits[id] = 0
    /\ \E id \in DOMAIN player_credits : player_credits[id] > MIN_MONEY

\* C6: in every per-round economy log entry, for each team,
\* end = start - spend + reward, up to clamping to the economy floor or cap.
ClampedTo(end, raw) ==
    \/ end = raw
    \/ raw > MAX_MONEY /\ end = MAX_MONEY
    \/ raw < MIN_MONEY /\ end = MIN_MONEY

C6_LogBalance ==
    RoundCompleted =>
        /\ ClampedTo(economy_log.team_a_end,
                     economy_log.team_a_start - economy_log.team_a_spend
                        + economy_log.team_a_reward)
        /\ ClampedTo(economy_log.team_b_end,
                     economy_log.team_b_start - economy_log.team_b_spend
                        + economy_log.team_b_reward)

\* C7: each losing player's credits rise by LOSS_STREAK_BONUS[min(s, 4)],
\* s the team's loss streak before this round's increment, clamped to
\* MIN_MONEY..MAX_MONEY (plus the capped plant bonus for a planting loser).
C7_LossBonus ==
    (RoundCompleted /\ pc # "done") =>
        LET loser == OtherTeam(round_result.winner)
            bonus == LossBonus(loss_streaks[loser] - 1)
            planted == round_result.spike_planted
                       /\ loser = AttackingTeam(round_number - 1)
        IN  \A id \in MatchTeamIds(loser) :
                LET rewarded == Max(MIN_MONEY,
                                    Min(MAX_MONEY, round_result.player_credits[id] + bonus))
                IN  player_credits[id] =
                        IF planted THEN Min(MAX_MONEY, rewarded + PLANT_BONUS) ELSE rewarded

\* C8: after every round each winning player holds
\* min(9000, credits after the buy phase + 3000), plus the plant bonus capped
\* at 9000 when the spike was planted by the winner's side.
C8_WinReward ==
    (RoundCompleted /\ pc # "done") =>
        LET winner == round_result.winner
            planted == round_result.spike_planted
                       /\ winner = AttackingTeam(round_number - 1)
        IN  \A id \in MatchTeamIds(winner) :
                LET rewarded == Min(MAX_MONEY, round_result.player_credits[id] + WIN_REWARD)
                IN  player_credits[id] =
                        IF planted THEN Min(MAX_MONEY, rewarded + PLANT_BONUS) ELSE rewarded

\* C9: players enter the buy phase with exactly 800 credits in rounds 0 and
\* 12 and in no other round (credits after an end-of-round reward are at
\* least MIN_MONEY, so 800 on entry means the credits were reset).
C9_PistolReset ==
    pc = "loop" =>
        \A id \in DOMAIN entry_credits :
            (entry_credits[id] = PISTOL_CREDITS) <=> IsPistolRound(round_number)

\* C10: in every round the attacking side is team A exactly when
\* round_number < 12.
C10_AttackerSide ==
    pc = "loop" =>
        ((attacking_team = "team_a") <=> (round_number < SECOND_HALF_ROUND))

\* C11: the round winner follows the outcome rule relative to the round's
\* attacking side: defenders eliminated -> attackers; else attackers
\* eliminated -> defenders; else spike planted -> attackers; else defenders.
OutcomeRule(attackers, survivors, planted) ==
    LET defenders == OtherTeam(attackers)
    IN  IF survivors[defenders] = 0 THEN attackers
        ELSE IF survivors[attackers] = 0 THEN defenders
        ELSE IF planted THEN attackers
        ELSE defenders

C11_WinnerRule ==
    RoundCompleted =>
        round_result.winner =
            OutcomeRule(attacking_team, round_result.survivors, round_result.spike_planted)

\* C12: when the spike is planted in a round, the plant bonus goes to the
\* side that attacked in that round, in the team's economy log reward and in
\* the credits of that side's players alike, and to nobody else. (The
\* players' part leaves out round 12, whose credits are reset.)
TeamReward(team, winner, streaks) ==
    IF team = winner THEN WIN_REWARD ELSE LossBonus(streaks[team] - 1)

PlayerReward(team, winner, streaks, credits) ==
    IF team = winner THEN Min(MAX_MONEY, credits + WIN_REWARD)
    ELSE Max(MIN_MONEY, Min(MAX_MONEY, credits + LossBonus(streaks[team])))

C12_PlantBonusSide ==
    (RoundCompleted /\ round_result.spike_planted) =>
        LET attackers == attacking_team
            defenders == OtherTeam(attacking_team)
            winner == round_result.winner
        IN  /\ economy_log[RewardKey(attackers)] =
                    TeamReward(attackers, winner, loss_streaks) + PLANT_BONUS
            /\ economy_log[RewardKey(defenders)] =
                    TeamReward(defenders, winner, loss_streaks)
            /\ economy_log.round_number # SECOND_HALF_ROUND =>
                /\ \A id \in MatchTeamIds(attackers) :
                    player_credits[id] =
                        Min(MAX_MONEY,
                            PlayerReward(attackers, winner, loss_streaks,
                                         round_result.player_credits[id]) + PLANT_BONUS)
                /\ \A id \in MatchTeamIds(defenders) :
                    player_credits[id] =
                        PlayerReward(defenders, winner, loss_streaks,
                                     round_result.player_credits[id])

\* C13: agents are assigned once at match start and never change: in every
\* round every player of both teams has an agent, the agent in the round's
\* loadout is the one in the player_agents mapping that the match returns.
C13_AgentsFixed ==
    [][/\ pc \in {"round", "loop", "finish"} => player_agents' = player_agents
       /\ RoundCompleted' =>
            \A id \in MatchTeamIds("team_a")' \cup MatchTeamIds("team_b")' :
                /\ id \in DOMAIN player_agents'
                /\ round_result'.loadout_agents[id] = player_agents'[id]
       /\ pc' = "done" => match_result'.player_agents = player_agents']_vars

C13_Witness ==
    /\ pc = "done" /\ num_rounds > WIN_SCORE
    /\ round_result.loadout_agents["a1"] = "Jett"
    /\ match_result.player_agents["a1"] = "Jett"
    /\ match_result.player_agents["b1"] = "Chamber"

\* ------------------------------------------------------------------------
\* The simulate endpoint (api/v1/match.py) in front of the shared engine:
\* requests with rosters of five and optional agent selections
\* ------------------------------------------------------------------------
ROSTER_SIZE == 5

\* The agents in the order of a player's agentProficiencies
AgentOrder ==
    <<"Jett", "Phoenix", "Raze", "Reyna", "Yoru", "Neon", "ISO",
      "Brimstone", "Viper", "Omen", "Astra", "Harbor", "Clove",
      "Killjoy", "Cypher", "Sage", "Chamber", "Deadlock",
      "Sova", "Breach", "Skye", "KAY/O", "Fade", "Gekko">>

\* Proficiencies over every known agent, in the ranges of the player
\* generator: 80 to 100 for the agents of the player's role, 50 to 85 for the
\* others; the favourite is the player's best agent
AgentProficiencies(role, favourite) ==
    [i \in 1..Len(AgentOrder) |->
        <<AgentOrder[i],
          IF _get_agent_role(AgentOrder[i]) = role
          THEN (IF AgentOrder[i] = favourite THEN 95 ELSE 80)
          ELSE (IF AgentOrder[i] = favourite THEN 85 ELSE 50)>>]

WithRoleProficiencies(player, proficiency) ==
    [f \in DOMAIN player \cup {"roleProficiencies"} |->
        IF f = "roleProficiencies"
        THEN [r \in {player.primaryRole} |-> proficiency]
        ELSE player[f]]

RosterPlayer(id, role, favourite, proficiency) ==
    WithRoleProficiencies(
        WithCareerStats(
            Player(id, role, 70, 60, 60, 70, AgentProficiencies(role, favourite)),
            10, 2, 2),
        proficiency)

PlayerKinds == 1..6

\* Players of the four role classes and a Flex player; kind 2 is a Duelist
\* whose best agent is an Initiator
PlayerOfKind(kind, id) ==
    CASE kind = 1 -> RosterPlayer(id, "Duelist", "Jett", 80)
      [] kind = 2 -> RosterPlayer(id, "Duelist", "Sova", 90)
      [] kind = 3 -> RosterPlayer(id, "Controller", "Omen", 70)
      [] kind = 4 -> RosterPlayer(id, "Sentinel", "Chamber", 70)
      [] kind = 5 -> RosterPlayer(id, "Initiator", "Sova", 70)
      [] OTHER -> RosterPlayer(id, "Flex", "Jett", 0)

IdsP == <<"p1", "p2", "p3", "p4", "p5">>
IdsQ == <<"q1", "q2", "q3", "q4", "q5">>

RosterOfKinds(ids, kinds) ==
    [i \in 1..ROSTER_SIZE |-> PlayerOfKind(kinds[i], ids[i])]

\* agent_selections of a request: none, or an agent for the first player
AgentSelections == {NoAgents, [id \in {"p1"} |-> "Sage"]}

\* A request for team A made of the given kinds against a fixed team B
MatchRequest(kinds, selections) ==
    [team_a |-> RosterOfKinds(IdsP, kinds),
     team_b |-> RosterOfKinds(IdsQ, <<1, 3, 4, 5, 6>>),
     map_name |-> "Haven",
     agent_selections |-> selections]

AgentInit ==
    /\ pc = "request"
    /\ \E kinds \in [1..ROSTER_SIZE -> PlayerKinds], selections \in AgentSelections :
            request = MatchRequest(kinds, selections)
    /\ advice = NoAdvice
    /\ duel = NoDuel
    /\ map_collection = CatalogMaps
    /\ map_response = NoResponse
    /\ FreshEngine

\* "if match_req.agent_selections: match_engine.player_agents = ..."
ApiPresetAgents ==
    /\ pc = "request"
    /\ player_agents' = IF request.agent_selections # NoAgents
                        THEN request.agent_selections
                        ELSE player_agents
    /\ pc' = "call"
    /\ UNCHANGED <<current_match, round_number, score, economy, player_credits,
                   loss_streaks, economy_log, num_logs, round_result, num_rounds,
                   alive_players, spike_planted, clutch_player, round_weapons,
                   round_armor, entry_credits, attacking_team, match_result,
                   map_name, request, seed, previous, event_time, map_events, advice, duel, map_collection, map_response>>

\* "result = match_engine.simulate_match(team_a_players, team_b_players,
\* match_req.map_name)", up to the round loop
ApiSimulate ==
    /\ pc = "call"
    /\ simulate_match(request.team_a, request.team_b, request.map_name)
    /\ UNCHANGED <<request, seed, previous, advice, duel, map_collection, map_response>>

AgentNext == ApiPresetAgents \/ ApiSimulate

AgentSpec == AgentInit /\ [][AgentNext]_vars

TeamOf(team) == IF team = "team_a" THEN request.team_a ELSE request.team_b

PrimaryRoles(team) == {TeamOf(team)[i].primaryRole : i \in 1..Len(TeamOf(team))}

CoversKnownAgents(player) ==
    KnownAgents \subseteq
        {player.agentProficiencies[i][1] : i \in 1..Len(player.agentProficiencies)}

AssignedRoles(team) ==
    {_get_agent_role(player_agents[id]) : id \in TeamIds(TeamOf(team))}

\* C14: when simulate_match has assigned the agents, a team of five whose
\* primary roles include all four role classes and whose players have
\* proficiencies for every known agent has at least one agent of each of
\* the four role classes.
C14_RoleCoverage ==
    pc = "round" =>
        \A team \in Teams :
            (/\ Len(TeamOf(team)) = ROSTER_SIZE
             /\ RoleClasses \subseteq PrimaryRoles(team)
             /\ \A i \in 1..Len(TeamOf(team)) : CoversKnownAgents(TeamOf(team)[i]))
            => AssignedRoles(team) = RoleClasses

\* Team A has one Duelist, whose best agent is an Initiator, and two
\* Controllers; the Duelist is given the best Duelist of their table.
C14_Witness ==
    /\ pc = "round"
    /\ PrimaryRoles("team_a") = RoleClasses
    /\ request.team_a[1].primaryRole = "Duelist"
    /\ BestAgentFrom(request.team_a[1].agentProficiencies, 1, 1) = "Sova"
    /\ player_agents["p1"] = "Jett"
    /\ AssignedRoles("team_a") = RoleClasses

\* C15: within a team no two players are assigned the same agent (the same
\* agent may appear on both teams).
C15_DistinctAgents ==
    pc = "round" =>
        \A team \in Teams :
            \A id1 \in TeamIds(TeamOf(team)), id2 \in TeamIds(TeamOf(team)) :
                id1 # id2 => player_agents[id1] # player_agents[id2]

\* C16: the agent selections of a simulate request are honoured: each
\* player id of the request's selections has that agent in the mapping the
\* match runs with.
C16_OverridesHonoured ==
    pc = "round" =>
        \A id \in DOMAIN request.agent_selections :
            /\ id \in DOMAIN player_agents
            /\ player_agents[id] = request.agent_selections[id]

\* ------------------------------------------------------------------------
\* Matches between players with given career statistics
\* ------------------------------------------------------------------------

\* kdRatio, clutchRate, firstBloodRate in units of 0.1: no record at all, two
\* different records of equal performance, and a better one
CareerStats == {<<0, 0, 0>>, <<10, 2, 2>>, <<7, 4, 4>>, <<12, 2, 3>>}

RosterWithStats(ids, stats, first) ==
    [i \in 1..TeamSize |->
        WithCareerStats(Roster(ids, 0)[i],
                        stats[first + i][1], stats[first + i][2], stats[first + i][3])]

\* A call of simulate_match on a catalog map, the draws following "plant"
StartMatchWithStats ==
    /\ pc = "idle"
    /\ \E stats \in [1..(2 * TeamSize) -> CareerStats] :
        simulate_match(RosterWithStats(IdsA, stats, 0),
                       RosterWithStats(IdsB, stats, TeamSize), "Haven")
    /\ seed' = "plant"
    /\ UNCHANGED <<request, previous, advice, duel, map_collection, map_response>>

MvpNext == StartMatchWithStats \/ SimulateMatchStep

MvpSpec == Init /\ [][MvpNext]_vars

MatchPlayers == current_match.team_a \o current_match.team_b

\* C17: the mvp of the result is a player of the match whose
\* 0.4*kdRatio + 0.3*clutchRate + 0.3*firstBloodRate is maximal over all
\* players of both teams.
C17_MvpMaximal ==
    pc = "done" =>
        \E i \in 1..Len(MatchPlayers) :
            /\ MatchPlayers[i].id = match_result.mvp
            /\ \A j \in 1..Len(MatchPlayers) :
                    Performance(MatchPlayers[j]) <= Performance(MatchPlayers[i])

\* The first player has performance 0, a later one of team A has the only
\* maximum and is the mvp.
C17_Witness ==
    /\ pc = "done"
    /\ Performance(MatchPlayers[1]) = 0
    /\ match_result.mvp = MatchPlayers[2].id
    /\ \A j \in 1..Len(MatchPlayers) :
            j # 2 => Performance(MatchPlayers[j]) < Performance(MatchPlayers[2])

\* ------------------------------------------------------------------------
\* Two calls of simulate_match with the same teams, map and seed
\* ------------------------------------------------------------------------

\* The first call, after the caller has seeded the random module
SeededStart ==
    /\ pc = "idle"
    /\ \E oa \in RosterOffsets, ob \in RosterOffsets :
        simulate_match(Roster(IdsA, oa), Roster(IdsB, ob), "Haven")
    /\ seed' \in Seeds
    /\ previous' = NoMatchResult
    /\ UNCHANGED <<request, advice, duel, map_collection, map_response>>

\* The second call: same seed, same arguments; the first result is kept
SeededReplay ==
    /\ pc = "done"
    /\ previous = NoMatchResult
    /\ simulate_match(current_match.team_a, current_match.team_b, map_name)
    /\ seed' = seed
    /\ previous' = match_result
    /\ UNCHANGED <<request, advice, duel, map_collection, map_response>>

ReplayNext == SeededStart \/ SeededReplay \/ SimulateMatchStep

ReplaySpec == Init /\ [][ReplayNext]_vars

\* C18: two runs of simulate_match with identical teams, map and seed return
\* identical results in every field, duration included.
C18_Reproducible ==
    (pc = "done" /\ previous # NoMatchResult) => match_result = previous

\* C19: simulate_match with a map name that is not in the map catalog does
\* not fail: the call never ends in an exception.
C19_UnknownMapCompletes ==
    map_name \notin MapCatalog => pc # "error"

\* C20: the economy log is written in round order: the call appends the
\* 'Match start' entry, every round appends exactly one entry, numbered with
\* the count of rounds played before it, no other step appends; once the
\* round is played the last entry carries that round's winner and
\* spike_planted flag and the log has one entry more than there are rounds;
\* the returned log has rounds + 1 entries.
C20_LogOrder ==
    [][/\ num_logs' # num_logs =>
            \/ /\ pc \in {"idle", "done", "error"}
               /\ num_logs' = 1 /\ num_rounds' = 0
               /\ economy_log'.round_number = 0 /\ economy_log'.winner = "None"
            \/ /\ pc = "round"
               /\ num_logs' = num_logs + 1 /\ num_logs = num_rounds + 1
               /\ economy_log'.round_number = num_rounds
       /\ num_rounds' = num_rounds + 1 =>
            /\ num_logs' = num_rounds' + 1
            /\ economy_log'.round_number = num_rounds
            /\ economy_log'.winner = round_result'.winner
            /\ economy_log'.spike_planted = round_result'.spike_planted
       /\ pc' = "done" =>
            /\ match_result'.economy_logs = match_result'.rounds + 1
            /\ economy_log' = economy_log]_vars

C20_Witness ==
    /\ pc = "done"
    /\ match_result.economy_logs = 2 * WIN_SCORE
    /\ economy_log.round_number = 2 * WIN_SCORE - 2
    /\ economy_log.winner = "team_a"
    /\ round_result.winner = "team_a"
    /\ economy_log.spike_planted

\* ------------------------------------------------------------------------
\* Matches in which the time steps of the engagement loop are explored
\* ------------------------------------------------------------------------
TimedLoopIteration == EngagementLoop(TimesExplored, TimesExplored, FALSE)

EventNext == StartMatch \/ BeginRound \/ TimedLoopIteration \/ EndRound \/ Return

EventSpec == Init /\ [][EventNext]_vars

TimeOrdered(events) ==
    \A i \in 1..Len(events), j \in 1..Len(events) :
        i < j => events[i].timestamp <= events[j].timestamp

\* C21: within every round the events of map_data.events are in
\* non-decreasing timestamp order, while the round is played and in the
\* round's result.
C21_EventOrder ==
    /\ TimeOrdered(map_events)
    /\ TimeOrdered(round_result.events)

\* A round with a kill after a long step, then a kill and a plant in one
\* later iteration after a short step
C21_Witness ==
    /\ RoundCompleted
    /\ Len(round_result.events) = 3
    /\ round_result.events[1].event_type = "kill"
    /\ round_result.events[1].timestamp = MaxTimeStep
    /\ round_result.events[2].event_type = "kill"
    /\ round_result.events[2].timestamp = MaxTimeStep + MinTimeStep
    /\ round_result.events[3].event_type = "plant"
    /\ round_result.events[3].timestamp = MaxTimeStep + MinTimeStep

\* C22: after every round each team's economy is within 0..9000, and after
\* a round in which the spike was planted the economy of the side that
\* attacked, and of the side _update_economy takes for the planting team, is
\* at least the smaller of 9000 and its economy before the round plus 300.
C22_EconomyRange ==
    [][num_rounds' = num_rounds + 1 =>
        /\ \A team \in Teams : economy'[team] \in 0..MAX_MONEY
        /\ round_result'.spike_planted =>
            \A team \in {attacking_team,
                         IF round_number % 2 = 0 THEN "team_a" ELSE "team_b"} :
                economy'[team] >= Min(MAX_MONEY, economy[team] + PLANT_BONUS)]_vars

\* The attackers planted and lost a round in which _update_economy takes the
\* other side for the planting team; a team is at the cap.
C22_Witness ==
    /\ RoundCompleted
    /\ round_result.spike_planted
    /\ round_result.winner # AttackingTeam(round_number - 1)
    /\ economy_log.round_number % 2 = 1 /\ AttackingTeam(round_number - 1) = "team_a"
    /\ economy[round_result.winner] = MAX_MONEY

RECURSIVE SumCredits(_, _, _)
SumCredits(team, credits, i) ==
    IF i = 0 THEN 0 ELSE credits[team[i].id] + SumCredits(team, credits, i - 1)

TeamCredits(team) ==
    SumCredits(current_match[team], player_credits, Len(current_match[team]))

\* C23: after every round the economy of each team is the aggregate of the
\* credits of the team's players, their sum or their mean.
C23_EconomyFromCredits ==
    RoundCompleted =>
        \A team \in Teams :
            \/ economy[team] = TeamCredits(team)
            \/ economy[team] * Len(current_match[team]) = TeamCredits(team)

\* ------------------------------------------------------------------------
\* Matches between players whose records lack careerStats, as the records
\* built by ValorantSim._transform_players_for_engine
\* ------------------------------------------------------------------------
WithoutCareerStats(player) ==
    [f \in DOMAIN player \ {"careerStats"} |-> player[f]]

\* The roster with the career statistics of the players in `lacking` left out
RosterLacking(ids, offset, lacking) ==
    [i \in 1..TeamSize |->
        IF ids[i] \in lacking THEN WithoutCareerStats(Roster(ids, offset)[i])
        ELSE Roster(ids, offset)[i]]

StartMatchIncomplete ==
    /\ pc = "idle"
    /\ \E oa \in RosterOffsets, ob \in RosterOffsets :
       \E lacking \in SUBSET (TeamIds(Roster(IdsA, oa)) \cup TeamIds(Roster(IdsB, ob))) :
            /\ lacking # {}
            /\ simulate_match(RosterLacking(IdsA, oa, lacking),
                              RosterLacking(IdsB, ob, lacking), "Haven")
    /\ seed' \in Seeds
    /\ UNCHANGED <<request, previous, advice, duel, map_collection, map_response>>

IncompleteNext == StartMatchIncomplete \/ SimulateMatchStep

IncompleteSpec == Init /\ [][IncompleteNext]_vars

\* C24: a call whose player records lack a required field is rejected
\* before any round is simulated: when the call ends in that error no round
\* has been played and no round has an economy log entry.
C24_RejectedBeforeRounds ==
    (pc = "error" /\ MvpRaises(current_match)) =>
        /\ num_rounds = 0
        /\ round_result = NoResult
        /\ num_logs <= 1

\* ------------------------------------------------------------------------
\* The service: simulate requests handled one after the other by the
\* module-level engine of api/v1/match.py; the handler has no await, so the
\* handler bodies of two requests do not interleave, and the response of a
\* request is still being sent while the next request is handled.
\* ------------------------------------------------------------------------
ServiceSelections == {NoAgents, [id \in {"a1"} |-> "Sage"]}

\* A simulate request arrives; the response of the request before it, if
\* any, is kept in `previous`. The engine object is the same for every request.
ApiReceive ==
    /\ pc \in {"idle", "done"}
    /\ previous = NoMatchResult
    /\ \E oa \in RosterOffsets, ob \in RosterOffsets, selections \in ServiceSelections :
        request' = [team_a |-> Roster(IdsA, oa), team_b |-> Roster(IdsB, ob),
                    map_name |-> "Haven", agent_selections |-> selections]
    /\ previous' = match_result
    /\ seed' \in Seeds
    /\ pc' = "request"
    /\ UNCHANGED <<current_match, round_number, score, economy, player_credits,
                   loss_streaks, economy_log, num_logs, round_result, num_rounds,
                   match_result, map_name, player_agents, advice, duel, map_collection, map_response>>
    /\ UNCHANGED round_vars

ServiceNext == ApiReceive \/ ApiPresetAgents \/ ApiSimulate \/ SimulateMatchStep

ServiceSpec == Init /\ [][ServiceNext]_vars

\* C25: simulate requests share no mutable match state: the engine a request
\* is handled with holds no score, player credits, loss streaks, agent
\* selections or economy log of another request, so that a request neither
\* reads nor overwrites them.
C25_NoSharedMatchState ==
    pc = "request" =>
        /\ score = [t \in Teams |-> 0]
        /\ player_credits = NoPlayers
        /\ loss_streaks = [t \in Teams |-> 0]
        /\ player_agents = NoAgents
        /\ num_logs = 0


\* ------------------------------------------------------------------------
\* The buy advisor on its own: BuyPreferences(player).decide_buy(credits,
\* team_economy, round_type) for players, credits and round types around
\* the thresholds of its tables
\* ------------------------------------------------------------------------
AdvisorRoles == {"Duelist", "duelist", "Sentinel", "sentinel", "Initiator"}
AdvisorAims == {50, 76, 91}
AdvisorMovements == {60, 71, 86}
AdvisorAgents == {"Jett", "Sova"}
AdvisorCredits == {0, 200, 450, 500, 800, 1600, 1850}
RoundTypes == {"pistol", "eco", "force_buy", "half_buy", "full_buy"}

AdvisorInit ==
    /\ pc = "advisor"
    /\ request = NoRequest
    /\ duel = NoDuel
    /\ map_collection = CatalogMaps
    /\ map_response = NoResponse
    /\ \E role \in AdvisorRoles, aim \in AdvisorAims, movement \in AdvisorMovements,
          agent \in AdvisorAgents, credits \in AdvisorCredits, round_type \in RoundTypes :
            advice = [player |-> Player("p1", role, aim, movement, 50, 70, <<<<agent, 90>>>>),
                      available_credits |-> credits, round_type |-> round_type,
                      weapon |-> "None"]
    /\ FreshEngine

DecideBuy ==
    /\ pc = "advisor"
    /\ advice' = [advice EXCEPT !.weapon =
                    decide_buy(advice.player, advice.available_credits, advice.round_type)]
    /\ pc' = "advised"
    /\ UNCHANGED <<request, seed, previous, duel, map_collection, map_response>>
    /\ UNCHANGED round_vars
    /\ UNCHANGED <<current_match, round_number, score, economy, player_credits,
                   loss_streaks, economy_log, num_logs, round_result, num_rounds,
                   match_result, map_name, player_agents>>

AdvisorNext == DecideBuy

AdvisorSpec == AdvisorInit /\ [][AdvisorNext]_vars

\* C26: on a pistol round the advisor returns Sheriff for every player with
\* credits >= 800 and aim > 90, and Classic for a player with aim 50 and
\* credits 800 who matches no other pistol rule.
C26_PistolSheriff ==
    (pc = "advised" /\ advice.round_type = "pistol")
        => LET aim == advice.player.coreStats.aim
               movement == advice.player.coreStats.movement
               role == advice.player.primaryRole
               credits == advice.available_credits
           IN  /\ (credits >= 800 /\ aim > 90) => advice.weapon = "Sheriff"
               /\ (aim = 50 /\ credits = 800 /\ role # "duelist" /\ movement <= 70
                   /\ role \notin {"sentinel", "controller"})
                      => advice.weapon = "Classic"

\* C27: on a half_buy round the advisor returns Judge when credits >= 1850
\* and (the primary agent is Raze, Jett or Reyna, or movement > 85),
\* otherwise Ares when credits >= 1600 and the role is Sentinel or
\* Controller, otherwise Spectre when credits >= 1600, otherwise the
\* force_buy decision.
C27_HalfBuyOrder ==
    (pc = "advised" /\ advice.round_type = "half_buy")
        => LET aim == advice.player.coreStats.aim
               movement == advice.player.coreStats.movement
               role == advice.player.primaryRole
               agent == PrimaryAgent(advice.player)
               credits == advice.available_credits
           IN  advice.weapon =
                 IF credits >= 1850 /\ (agent \in {"Raze", "Jett", "Reyna"} \/ movement > 85)
                 THEN "Judge"
                 ELSE IF credits >= 1600 /\ role \in {"Sentinel", "Controller"} THEN "Ares"
                 ELSE IF credits >= 1600 THEN "Spectre"
                 ELSE _force_buy(credits, aim, movement, role, agent)


\* C28: in rounds 0 and 12 the buy phase asks the advisor with round type
\* "pistol" for every player, whatever the team economy and loss streak:
\* every player's weapon is the one of the pistol table.
C28_PistolTable ==
    (pc = "loop" /\ IsPistolRound(round_number))
        => \A t \in Teams : \A i \in 1..Len(current_match[t]) :
              LET player == current_match[t][i]
              IN  round_weapons[t][player.id]
                    = decide_buy(player, entry_credits[player.id], "pistol")


\* ------------------------------------------------------------------------
\* The buy phase on its own: _buy_phase(team, team_economy, team_loss_streak,
\* team_id) on an engine whose round number and player credits are given,
\* as tests/simulation/test_weapons.py calls it
\* ------------------------------------------------------------------------
DigitOrder == <<"0", "1", "2", "3", "4">>

\* The team of test_match_engine_buy_phase: five players with ids "0".."4"
\* and core statistics only
TestTeam ==
    [i \in 1..TEST_TEAM_SIZE |-> Player(DigitOrder[i], "Flex", 85, 80, 75, 85, <<>>)]

BuyTeams == {Roster(IdsA, offset) : offset \in RosterOffsets} \cup {TestTeam}
BuyRounds == {0, 1, SECOND_HALF_ROUND}
BuyEconomies == {1000, 3000, TEST_TEAM_ECONOMY, MAX_MONEY}
BuyLossStreaks == {0, 2}
BuyCredits == {0, 800, 1000, 1001, 2500, 3900, 5700}

\* self.player_credits of the team: any credits per player for a roster;
\* for the team of five, one level for the first player and one for each
\* index parity of the others
CreditsOf(team) ==
    IF Len(team) = TEST_TEAM_SIZE
    THEN {[id \in TeamIds(team) |->
             IF id = "0" THEN first ELSE IF id \in {"2", "4"} THEN even ELSE odd] :
            first \in BuyCredits, even \in BuyCredits, odd \in BuyCredits}
    ELSE [TeamIds(team) -> BuyCredits]

BuyPhaseInit ==
    /\ pc = "buy"
    /\ request = NoRequest
    /\ advice = NoAdvice
    /\ duel = NoDuel
    /\ map_collection = CatalogMaps
    /\ map_response = NoResponse
    /\ \E team \in BuyTeams :
        /\ current_match = [team_a |-> team, team_b |-> <<>>]
        /\ player_credits \in CreditsOf(team)
    /\ round_number \in BuyRounds
    /\ \E team_economy \in BuyEconomies :
        economy = [team_a |-> team_economy, team_b |-> START_ECONOMY]
    /\ \E team_loss_streak \in BuyLossStreaks :
        loss_streaks = [team_a |-> team_loss_streak, team_b |-> 0]
    /\ score = [t \in Teams |-> 0]
    /\ economy_log = EconomyLog(0, [t \in Teams |-> START_ECONOMY])
    /\ num_logs = 0
    /\ round_result = NoResult
    /\ num_rounds = 0
    /\ alive_players = [t \in Teams |-> {}]
    /\ spike_planted = FALSE
    /\ clutch_player = "None"
    /\ round_weapons = [t \in Teams |-> NoPlayers]
    /\ round_armor = [t \in Teams |-> NoPlayers]
    /\ entry_credits = NoPlayers
    /\ attacking_team = "team_a"
    /\ match_result = NoMatchResult
    /\ map_name = "None"
    /\ player_agents = NoAgents
    /\ seed = "None"
    /\ previous = NoMatchResult
    /\ event_time = 0
    /\ map_events = <<>>

\* weapons, armor = _buy_phase(team, team_economy, team_loss_streak, "team_a")
BuyPhaseCall ==
    /\ pc = "buy"
    /\ \E buy \in {_buy_phase(current_match["team_a"], economy["team_a"],
                              loss_streaks["team_a"], player_credits, round_number)} :
        /\ player_credits' = buy.credits
        /\ round_weapons' = [team_a |-> buy.weapons, team_b |-> NoPlayers]
        /\ round_armor' = [team_a |-> buy.armor, team_b |-> NoPlayers]
        /\ entry_credits' = buy.entry
    /\ pc' = "bought"
    /\ UNCHANGED <<current_match, round_number, score, economy, loss_streaks,
                   economy_log, num_logs, round_result, num_rounds, alive_players,
                   spike_planted, clutch_player, attacking_team, match_result,
                   map_name, player_agents, request, seed, previous, event_time,
                   map_events, advice, duel, map_collection, map_response>>

BuyPhaseNext == BuyPhaseCall

BuyPhaseSpec == BuyPhaseInit /\ [][BuyPhaseNext]_vars

\* The armor cost of the round as the claim states it
ArmorCostOf(rn) == IF IsPistolRound(rn) THEN PISTOL_ARMOR_COST ELSE ARMOR_COST

\* A player's credits after the weapon purchase
AfterWeapon(id) == entry_credits[id] - WeaponCatalog[round_weapons["team_a"][id]].cost

\* C29: a player buys armor exactly when the credits after the weapon
\* purchase are >= the armor cost (400 in rounds 0 and 12, 1000 otherwise)
\* and the player's round type is not eco, or it is eco, the weapon is
\* Classic and the credits strictly exceed the armor cost; the armor cost
\* is then deducted.
C29_ArmorRule ==
    pc = "bought"
        => \A id \in TeamIds(current_match["team_a"]) :
              LET armor_cost == ArmorCostOf(round_number)
                  prt == PlayerRoundType(
                            _determine_round_type(economy["team_a"], loss_streaks["team_a"]),
                            entry_credits[id])
                  buys == /\ AfterWeapon(id) >= armor_cost
                          /\ \/ prt # "eco"
                             \/ /\ round_weapons["team_a"][id] = "Classic"
                                /\ AfterWeapon(id) > armor_cost
              IN  /\ round_armor["team_a"][id] = buys
                  /\ player_credits[id]
                        = AfterWeapon(id) - (IF buys THEN armor_cost ELSE 0)


\* C30: _buy_phase returns, for every player of the team, exactly one weapon
\* name of the weapon catalog and one boolean armor flag, and a player who
\* spends nothing has the Classic and no armor, for any team economy, loss
\* streak and player credits.
C30_BuyPhaseTotal ==
    pc = "bought"
        => LET ids == TeamIds(current_match["team_a"])
           IN  /\ DOMAIN round_weapons["team_a"] = ids
               /\ DOMAIN round_armor["team_a"] = ids
               /\ \A id \in ids :
                    /\ round_weapons["team_a"][id] \in WeaponNames
                    /\ round_armor["team_a"][id] \in BOOLEAN
                    /\ player_credits[id] = entry_credits[id]
                          => /\ round_weapons["team_a"][id] = "Classic"
                             /\ ~round_armor["team_a"][id]

\* A call after which one player without credits holds the Classic and no
\* armor, one player fell back to the Classic because the chosen weapon
\* could not be paid, and another bought a weapon and armor
C30_Witness ==
    /\ pc = "bought"
    /\ \E id \in DOMAIN entry_credits :
        /\ entry_credits[id] = 0
        /\ round_weapons["team_a"][id] = "Classic"
        /\ ~round_armor["team_a"][id]
    /\ IsTestTeam(current_match["team_a"])
    /\ economy["team_a"] = MAX_MONEY
    /\ ~IsPistolRound(round_number)
    /\ entry_credits["0"] = 800
    /\ round_weapons["team_a"]["0"] = "Classic"
    /\ \E id \in DOMAIN entry_credits :
        /\ round_weapons["team_a"][id] # "Classic"
        /\ round_armor["team_a"][id]


\* ------------------------------------------------------------------------
\* The duel resolver on its own: _simulate_duel(attacker, defender,
\* attacker_weapon, defender_weapon, distance, attacker_armor,
\* defender_armor), called once and then again with the same players,
\* weapons, distance and attacker armor, as tests/simulation/test_weapons.py
\* calls it
\* ------------------------------------------------------------------------

\* Values of random.uniform(0.8, 1.2): both end points and the middle, in
\* units of 0.2
DuelJitters == {4, 5, 6}

\* aim, movement and gameSense of the two identical players
DuelStats == {<<80, 80, 80>>, <<80, 75, 75>>}

\* attacker_weapon, defender_weapon
DuelWeapons == {<<"Operator", "Vandal">>, <<"Spectre", "Vandal">>, <<"Vandal", "Vandal">>}

DuelPlayer(id, stats) == Player(id, "Flex", stats[1], stats[2], 70, stats[3], <<>>)

DuelInit ==
    /\ pc = "duel"
    /\ request = NoRequest
    /\ advice = NoAdvice
    /\ duel = NoDuel
    /\ map_collection = CatalogMaps
    /\ map_response = NoResponse
    /\ \E stats \in DuelStats :
        current_match = [team_a |-> <<DuelPlayer("1", stats)>>,
                         team_b |-> <<DuelPlayer("2", stats)>>]
    /\ \E weapons \in DuelWeapons :
        round_weapons = [team_a |-> [id \in {"1"} |-> weapons[1]],
                         team_b |-> [id \in {"2"} |-> weapons[2]]]
    /\ round_number = 0
    /\ score = [t \in Teams |-> 0]
    /\ economy = [t \in Teams |-> START_ECONOMY]
    /\ player_credits = NoPlayers
    /\ loss_streaks = [t \in Teams |-> 0]
    /\ economy_log = EconomyLog(0, [t \in Teams |-> START_ECONOMY])
    /\ num_logs = 0
    /\ round_result = NoResult
    /\ num_rounds = 0
    /\ alive_players = [t \in Teams |-> {}]
    /\ spike_planted = FALSE
    /\ clutch_player = "None"
    /\ round_armor = [t \in Teams |-> NoPlayers]
    /\ entry_credits = NoPlayers
    /\ attacking_team = "team_a"
    /\ match_result = NoMatchResult
    /\ map_name = "None"
    /\ player_agents = NoAgents
    /\ seed = "None"
    /\ previous = NoMatchResult
    /\ event_time = 0
    /\ map_events = <<>>

\* One call: the arguments, the two draws and the returned value
DuelCall(distance, attacker_armor, defender_armor, attacker_jitter, defender_jitter) ==
    LET attacker == current_match["team_a"][1]
        defender == current_match["team_b"][1]
        attacker_weapon == round_weapons["team_a"][attacker.id]
        defender_weapon == round_weapons["team_b"][defender.id]
    IN  [distance |-> distance, attacker_armor |-> attacker_armor,
         defender_armor |-> defender_armor,
         attacker_jitter |-> attacker_jitter, defender_jitter |-> defender_jitter,
         result |-> _simulate_duel(
                      attacker_rating(attacker, attacker_weapon, distance, defender_armor),
                      defender_rating(defender, defender_weapon, distance, attacker_armor),
                      attacker_jitter, defender_jitter)]

DuelFrame ==
    UNCHANGED <<current_match, round_number, score, economy, player_credits,
                loss_streaks, economy_log, num_logs, round_result, num_rounds,
                alive_players, spike_planted, clutch_player, round_weapons,
                round_armor, entry_credits, attacking_team, match_result, map_name,
                player_agents, request, seed, previous, event_time, map_events,
                advice, map_collection, map_response>>

FirstDuel ==
    /\ pc = "duel"
    /\ \E distance \in Distances, attacker_armor \in BOOLEAN, defender_armor \in BOOLEAN,
          attacker_jitter \in DuelJitters, defender_jitter \in DuelJitters :
            duel' = <<DuelCall(distance, attacker_armor, defender_armor,
                               attacker_jitter, defender_jitter)>>
    /\ pc' = "dueled"
    /\ DuelFrame

RepeatDuel ==
    /\ pc = "dueled"
    /\ \E defender_armor \in BOOLEAN,
          attacker_jitter \in DuelJitters, defender_jitter \in DuelJitters :
            duel' = Append(duel, DuelCall(duel[1].distance, duel[1].attacker_armor,
                                          defender_armor, attacker_jitter, defender_jitter))
    /\ pc' = "repeated"
    /\ DuelFrame

DuelNext == FirstDuel \/ RepeatDuel

DuelSpec == DuelInit /\ [][DuelNext]_vars

AllStats(player, value) ==
    /\ player.coreStats.aim = value
    /\ player.coreStats.movement = value
    /\ player.coreStats.gameSense = value

\* The calls of the Operator against the Vandal at long range, both armored
OperatorCalls ==
    {i \in 1..Len(duel) :
        /\ round_weapons["team_a"]["1"] = "Operator"
        /\ round_weapons["team_b"]["2"] = "Vandal"
        /\ duel[i].distance = "long"
        /\ duel[i].attacker_armor /\ duel[i].defender_armor}

\* C31: an attacker with an Operator at long range beats a defender with a
\* Vandal of identical stats (80) when both wear armor, for every pair of
\* random factors in [0.8, 1.2].
C31_OperatorLongRange ==
    (AllStats(current_match["team_a"][1], 80) /\ AllStats(current_match["team_b"][1], 80))
        => \A i \in OperatorCalls : duel[i].result

\* Two such calls, the first with the attacker's lowest and the defender's
\* highest factor, both won by the attacker
C31_Witness ==
    /\ pc = "repeated"
    /\ AllStats(current_match["team_a"][1], 80)
    /\ AllStats(current_match["team_b"][1], 80)
    /\ OperatorCalls = {1, 2}
    /\ duel[1].attacker_jitter = 4 /\ duel[1].defender_jitter = 6
    /\ duel[1].result /\ duel[2].result


\* Both players hold the Vandal and every call is at medium range
VandalMedium ==
    /\ round_weapons["team_a"]["1"] = "Vandal"
    /\ round_weapons["team_b"]["2"] = "Vandal"
    /\ \A i \in 1..Len(duel) : duel[i].distance = "medium"

SameJitters(i, j) ==
    /\ duel[i].attacker_jitter = duel[j].attacker_jitter
    /\ duel[i].defender_jitter = duel[j].defender_jitter

\* C32: for two identical players, both with the Vandal at medium range,
\* and the same pair of random factors, an attacker who wins against an
\* armored defender also wins against an unarmored one.
C32_ArmorHurtsAttacker ==
    VandalMedium
        => \A i \in 1..Len(duel), j \in 1..Len(duel) :
              (SameJitters(i, j) /\ duel[i].defender_armor /\ ~duel[j].defender_armor
               /\ duel[i].result)
                  => duel[j].result

\* The same pair of random factors, an armored attacker as in the test: the
\* duel is lost against the armored defender and won against the unarmored
C32_Witness ==
    /\ pc = "repeated"
    /\ VandalMedium
    /\ SameJitters(1, 2)
    /\ duel[1].attacker_armor
    /\ duel[1].defender_armor /\ ~duel[1].result
    /\ ~duel[2].defender_armor /\ duel[2].result


\* ------------------------------------------------------------------------
\* The map collection and the maps endpoints: MapCollection.add_map and
\* get_map, POST /maps/ (save_map) and GET /maps/{map_id}/exists
\* (map_exists), on the collection of a new process
\* ------------------------------------------------------------------------
SavedNames == {"Haven", "haven", "My Map", "my_map"}
LayoutIds == {"haven", "my_map"}
ImageUrls == {"/static/maps/default.jpg", "/static/maps/custom.jpg"}

MapInit ==
    /\ pc = "maps"
    /\ request = NoRequest
    /\ advice = NoAdvice
    /\ duel = NoDuel
    /\ map_collection = [name \in {} |-> NoLayout]
    /\ map_response = NoResponse
    /\ FreshEngine

MapFrame ==
    /\ UNCHANGED <<pc, current_match, round_number, score, economy, player_credits,
                   loss_streaks, economy_log, num_logs, round_result, num_rounds,
                   match_result, map_name, player_agents, request, seed, previous,
                   advice, duel>>
    /\ UNCHANGED round_vars

\* map_collection.add_map(map_layout) with a layout built by the caller
AddMap ==
    /\ pc = "maps"
    /\ \E id \in LayoutIds, name \in SavedNames, image_url \in ImageUrls :
        \E map_layout \in {MapLayout(id, name, image_url)} :
            /\ map_collection' = add_map(map_collection, map_layout)
            /\ map_response' = [op |-> "add_map", map_layout |-> map_layout,
                                map_id |-> id, answer |-> TRUE]
    /\ MapFrame

\* POST /maps/ with map_data = {"name": name, "image_url": image_url}
save_map ==
    /\ pc = "maps"
    /\ \E name \in SavedNames \cup {""}, image_url \in ImageUrls :
        IF name = ""
        THEN /\ map_response' = [op |-> "save_map", map_layout |-> NoLayout,
                                 map_id |-> "", answer |-> FALSE]
             /\ UNCHANGED map_collection
        ELSE \E new_map \in {MapLayout(CleanMapId(name), name, image_url)} :
                /\ map_collection' = add_map(map_collection, new_map)
                /\ map_response' = [op |-> "save_map", map_layout |-> new_map,
                                    map_id |-> new_map.id, answer |-> TRUE]
    /\ MapFrame

\* GET /maps/{map_id}/exists
map_exists ==
    /\ pc = "maps"
    /\ \E map_id \in SavedNames :
        \E clean_map_id \in {CleanMapId(map_id)} :
            map_response' = [op |-> "map_exists", map_layout |-> NoLayout,
                             map_id |-> map_id,
                             answer |-> get_map(map_collection, clean_map_id) # NoLayout]
    /\ UNCHANGED map_collection
    /\ MapFrame

MapNext == AddMap \/ save_map \/ map_exists

MapSpec == MapInit /\ [][MapNext]_vars

StoredLayouts == {map_collection[k] : k \in DOMAIN map_collection}

\* C33: after a layout is added to the collection, directly or through the
\* save endpoint, the lookup by the layout's identifier returns it, the
\* exists check for the identifier of a stored layout answers true, and a
\* layout added with the identifier of an earlier one replaces it: no two
\* stored layouts share an identifier.
C33_LookupById ==
    /\ (map_response.op \in {"add_map", "save_map"} /\ map_response.answer)
          => get_map(map_collection, map_response.map_layout.id) = map_response.map_layout
    /\ (map_response.op = "map_exists"
        /\ \E map_layout \in StoredLayouts : map_layout.id = map_response.map_id)
          => map_response.answer
    /\ \A first \in StoredLayouts, second \in StoredLayouts :
          first.id = second.id => first = second


\* The advisor's decision for the credits and the round type of the player,
\* replaced by the Classic when the decision cannot be paid
AdvisedWeapon(player, credits, round_type) ==
    LET choice == decide_buy(player, credits, round_type)
    IN  IF credits >= WeaponCatalog[choice].cost THEN choice ELSE "Classic"

\* C34: in every round the weapon recorded for each player by the buy phase
\* is the advisor's decision for the player's credits and round type (an
\* Operator for a full-buy player with credits >= 4700 and aim > 85),
\* falling back to the Classic only when the decision is unaffordable.
C34_WeaponIsAdvice ==
    pc = "loop"
        => \A t \in Teams : \A i \in 1..Len(current_match[t]) :
              LET player == current_match[t][i]
                  credits == entry_credits[player.id]
                  round_type == PlayerRoundType(
                                    _determine_round_type(economy[t], loss_streaks[t]),
                                    credits)
              IN  round_weapons[t][player.id] = AdvisedWeapon(player, credits, round_type)


\* C36: whenever a kill leaves either side with exactly one living player
\* while the other side has at least two, that lone survivor is the round's
\* clutch_player; clutch_player is null when no side was reduced to one
\* player against at least two.
C36_ClutchEitherSide ==
    pc = "loop"
        => /\ \A t \in Teams :
                (Cardinality(alive_players[t]) = 1
                 /\ Cardinality(alive_players[OtherTeam(t)]) >= 2)
                    => clutch_player \in alive_players[t]
           /\ clutch_player # "None"
                => \E t \in Teams :
                      /\ clutch_player \in TeamIds(current_match[t])
                      /\ alive_players[t] \subseteq {clutch_player}


\* C35: the rosters are read-only during a match: the team lists passed to
\* simulate_match hold the same players in the same order until it returns,
\* and every round starts with all players of each team alive, whatever the
\* eliminations of the round before.
C35_RostersReadOnly ==
    [][/\ pc \in {"round", "loop", "finish"} => current_match' = current_match
       /\ (pc = "round" /\ pc' = "loop")
            => \A t \in Teams :
                  /\ alive_players'[t] = TeamIds(current_match[t])
                  /\ Cardinality(alive_players'[t]) = TeamSize]_vars

\* A round after the first that starts with everyone alive although a player
\* of each team was eliminated in the round before
C35_Witness ==
    /\ pc = "loop"
    /\ round_number >= 1
    /\ \A t \in Teams :
        /\ round_result.survivors[t] < TeamSize
        /\ alive_players[t] = TeamIds(current_match[t])
        /\ Len(current_match[t]) = TeamSize


\* C37: after any sequence of rounds every player's credits lie in
\* 0..MAX_MONEY: the buy phase deducts no more than the credits the player
\* entered it with, and the rewards at the end of a round are capped.
C37_CreditsInRange ==
    [][/\ \A id \in DOMAIN player_credits' :
            0 <= player_credits'[id] /\ player_credits'[id] <= MAX_MONEY
       /\ (pc = "round" /\ pc' = "loop")
            => \A id \in DOMAIN player_credits' :
                  /\ 0 <= entry_credits'[id] - player_credits'[id]
                  /\ entry_credits'[id] - player_credits'[id] <= entry_credits'[id]]_vars

\* A round after the pistol round entered by a player who pays a rifle and
\* armor and by a player who has nothing left after the buy phase
C37_Witness ==
    /\ pc = "loop"
    /\ round_number >= 1
    /\ \E id \in DOMAIN player_credits :
        /\ entry_credits[id] - player_credits[id] = WeaponCatalog["Phantom"].cost + ARMOR_COST
    /\ \E id \in DOMAIN player_credits :
        /\ entry_credits[id] > 0
        /\ player_credits[id] = 0

\* ------------------------------------------------------------------------
\* Reported spend of a round
\* ------------------------------------------------------------------------

\* The players of a team in the round result
ResultTeam(t) == TeamIds(current_match[t])

RECURSIVE SumTotalSpend(_)
SumTotalSpend(ids) ==
    IF ids = {} THEN 0
    ELSE LET id == CHOOSE x \in ids : TRUE
         IN  round_result.total_spend[id] + SumTotalSpend(ids \ {id})

\* C38: in every round result the total_spend of each player's loadout is
\* the amount the buy phase deducted from that player (credits on entry
\* minus credits after the buy phase), and each team's spend in the round's
\* economy log is the sum of its players' total_spend.
C38_TotalSpendIsDeducted ==
    round_result # NoResult =>
        /\ \A id \in DOMAIN round_result.total_spend :
                round_result.total_spend[id]
                    = entry_credits[id] - round_result.player_credits[id]
        /\ economy_log.team_a_spend = SumTotalSpend(ResultTeam("team_a"))
        /\ economy_log.team_b_spend = SumTotalSpend(ResultTeam("team_b"))

\* ------------------------------------------------------------------------
\* Matches in which the players of the kills and plants are explored
\* ------------------------------------------------------------------------
\* The players are explored, with the other draws, in the first rounds of a
\* call without a seed.
KillRounds == 1

PlayersExplored == seed = "None" /\ round_number < KillRounds

KillLoopIteration == EngagementLoop(PlayersExplored, FALSE, TRUE)

KillNext == StartMatch \/ BeginRound \/ KillLoopIteration \/ EndRound \/ Return

KillSpec == Init /\ [][KillNext]_vars

EventsOfType(events, event_type) ==
    {i \in 1..Len(events) : events[i].event_type = event_type}

TeamOfPlayer(id) == CHOOSE t \in Teams : id \in TeamIds(current_match[t])

\* C39: in every round result the survivors of both teams and the kill
\* events add up to the players of the two rosters, each kill's victim is
\* on the team opposite to its killer and is the victim of no other kill,
\* spike_planted is true exactly when there is a plant event, there is at
\* most one plant event, it is the last event and its player is an attacker
\* who is the victim of no kill.
C39_RoundResultEvents ==
    round_result # NoResult =>
        LET events == round_result.events
            kills == EventsOfType(events, "kill")
            plants == EventsOfType(events, "plant")
        IN  /\ round_result.survivors["team_a"] + round_result.survivors["team_b"]
                    + Cardinality(kills) = 2 * TeamSize
            /\ \A i \in kills :
                    /\ TeamOfPlayer(events[i].target_id)
                            = OtherTeam(TeamOfPlayer(events[i].player_id))
                    /\ \A j \in kills : events[j].target_id = events[i].target_id => j = i
            /\ round_result.spike_planted <=> plants # {}
            /\ Cardinality(plants) <= 1
            /\ \A i \in plants :
                    /\ i = Len(events)
                    /\ TeamOfPlayer(events[i].player_id) = attacking_team
                    /\ \A j \in kills : events[j].target_id # events[i].player_id

\* A round in which an attacker and a defender were each killed and the
\* attacker who planted is not the first of the roster
C39_Witness ==
    /\ round_result # NoResult
    /\ \E i, j \in EventsOfType(round_result.events, "kill") :
        /\ TeamOfPlayer(round_result.events[i].target_id) = attacking_team
        /\ TeamOfPlayer(round_result.events[j].target_id) = OtherTeam(attacking_team)
    /\ \E i \in EventsOfType(round_result.events, "plant") :
        round_result.events[i].player_id # current_match[attacking_team][1].id

\* ------------------------------------------------------------------------
\* The buy phase of two teams that differ in their players' ids only:
\* _buy_phase(team, ...) for each of them on one engine, with the same team
\* economy, loss streak and credits per roster position
\* ------------------------------------------------------------------------

\* The team with the ids of IdsB, none of which is all digits
Twin(team) == [i \in 1..Len(team) |-> [team[i] EXCEPT !.id = IdsB[i]]]

TwinCredits(team, credits) ==
    [id \in TeamIds(team) \cup TeamIds(Twin(team)) |->
        IF id \in TeamIds(team) THEN credits[id]
        ELSE credits[team[CHOOSE i \in 1..Len(team) : IdsB[i] = id].id]]

TwinInit ==
    /\ pc = "twin"
    /\ request = NoRequest
    /\ advice = NoAdvice
    /\ duel = NoDuel
    /\ map_collection = CatalogMaps
    /\ map_response = NoResponse
    /\ \E team \in BuyTeams :
        /\ current_match = [team_a |-> team, team_b |-> Twin(team)]
        /\ \E credits \in CreditsOf(team) : player_credits = TwinCredits(team, credits)
    /\ round_number \in BuyRounds
    /\ \E team_economy \in BuyEconomies :
        economy = [t \in Teams |-> team_economy]
    /\ \E team_loss_streak \in BuyLossStreaks :
        loss_streaks = [t \in Teams |-> team_loss_streak]
    /\ score = [t \in Teams |-> 0]
    /\ economy_log = EconomyLog(0, [t \in Teams |-> START_ECONOMY])
    /\ num_logs = 0
    /\ round_result = NoResult
    /\ num_rounds = 0
    /\ alive_players = [t \in Teams |-> {}]
    /\ spike_planted = FALSE
    /\ clutch_player = "None"
    /\ round_weapons = [t \in Teams |-> NoPlayers]
    /\ round_armor = [t \in Teams |-> NoPlayers]
    /\ entry_credits = NoPlayers
    /\ attacking_team = "team_a"
    /\ match_result = NoMatchResult
    /\ map_name = "None"
    /\ player_agents = NoAgents
    /\ seed = "None"
    /\ previous = NoMatchResult
    /\ event_time = 0
    /\ map_events = <<>>

\* _buy_phase(team_a, ..., "team_a") then _buy_phase(team_b, ..., "team_b")
TwinBuyCall ==
    /\ pc = "twin"
    /\ \E buy_a \in {_buy_phase(current_match["team_a"], economy["team_a"],
                                loss_streaks["team_a"], player_credits, round_number)} :
       \E credits_a \in {[id \in DOMAIN player_credits |->
                            IF id \in DOMAIN buy_a.credits THEN buy_a.credits[id]
                            ELSE player_credits[id]]} :
       \E buy_b \in {_buy_phase(current_match["team_b"], economy["team_b"],
                                loss_streaks["team_b"], credits_a, round_number)} :
           /\ player_credits' = [id \in DOMAIN player_credits |->
                                    IF id \in DOMAIN buy_b.credits THEN buy_b.credits[id]
                                    ELSE credits_a[id]]
           /\ round_weapons' = [team_a |-> buy_a.weapons, team_b |-> buy_b.weapons]
           /\ round_armor' = [team_a |-> buy_a.armor, team_b |-> buy_b.armor]
           /\ entry_credits' = [id \in DOMAIN player_credits |->
                                  IF id \in DOMAIN buy_a.entry THEN buy_a.entry[id]
                                  ELSE buy_b.entry[id]]
    /\ pc' = "bought"
    /\ UNCHANGED <<current_match, round_number, score, economy, loss_streaks,
                   economy_log, num_logs, round_result, num_rounds, alive_players,
                   spike_planted, clutch_player, attacking_team, match_result,
                   map_name, player_agents, request, seed, previous, event_time,
                   map_events, advice, duel, map_collection, map_response>>

TwinNext == TwinBuyCall

TwinSpec == TwinInit /\ [][TwinNext]_vars

\* C40: two teams that differ in their id strings only, with the same
\* credits, economy and loss streak, leave the buy phase with the same
\* weapons, armor and credits at every roster position, and outside the
\* pistol rounds no player leaves the buy phase with more credits than the
\* player held on entering it.
C40_IdsDoNotMatter ==
    [][pc = "twin" =>
        /\ \A i \in 1..Len(current_match["team_a"]) :
              LET a == current_match["team_a"][i].id
                  b == current_match["team_b"][i].id
              IN  /\ round_weapons'["team_a"][a] = round_weapons'["team_b"][b]
                  /\ round_armor'["team_a"][a] = round_armor'["team_b"][b]
                  /\ player_credits'[a] = player_credits'[b]
        /\ ~IsPistolRound(round_number) =>
              \A id \in DOMAIN player_credits : player_credits'[id] <= player_credits[id]]_vars

====
